---------------------------- MODULE Spec2Model ----------------------------
(***************************************************************************)
(* A model of the layer harvester (src/harvester): the tree scanner, the   *)
(* bbox classifier, the row extractor, the tag ordering and the report     *)
(* builder.  Python strings are sequences of one-character strings, so     *)
(* that lower(), strip(), startswith(), "in" and len() are computed and    *)
(* not assumed.  A JSON value is a record with one shape for every type    *)
(* (t is the type tag), so that values of different types can be compared. *)
(***************************************************************************)
EXTENDS Integers, Sequences, FiniteSets, TLC

VARIABLES
    bbox,          \* is_global_bbox: the four arguments [west, east, north, south]
    bbox_result,   \* is_global_bbox: the outcome of the call
    root,          \* find_hazard_layers: obj, the parsed document
    stack,         \* find_hazard_layers: the pending nodes, each named by its path from obj
    results,       \* find_hazard_layers: the caller's list, each node named by its path
    scan_pc,       \* find_hazard_layers: "idle", "loop" (line 92) or "done"
    pushed,        \* find_hazard_layers: the nodes put on the stack so far, in order
    popped,        \* find_hazard_layers: the nodes taken off the stack so far, in order
    layer,         \* extract_row: the argument
    row_result,    \* extract_row: the outcome of the call
    tags,          \* main: all_pdf_types before line 275
    sorted_tags,   \* main: all_pdf_types after line 275
    sort_pc,       \* "idle", "unsorted" or "sorted"
    mode,          \* "base" or "pdf" (main's --mode), or "custom" (a caller's own schema)
    base_columns,  \* core.BASE_COLUMNS, the module-level list
    columns,       \* main: columns (line 115)
    ac_result,     \* what the last call of pdf.active_columns() returned
    ac_calls,      \* how many times pdf.active_columns() has been called
    rows,          \* write_sheet: rows
    sheet,         \* write_sheet: ws, the worksheet
    sheet_pc,      \* "idle", "start", "ready" (columns chosen) or "written"
    base_column_descriptions,  \* core.BASE_COLUMN_DESCRIPTIONS, the module-level list
    legend_wb,     \* write_legend_sheet: wb, the sheets of the workbook
    legend_extra,  \* write_legend_sheet: extra_col_desc of the last call
    legend_result, \* write_legend_sheet: the outcome of the last call
    all_env_entries,  \* main: the (group, env_name, env_dict) entries (lines 128-131)
    group_slugs,   \* main: group -> hostname slug (lines 134-140), as (group, slug) pairs
    groups,        \* main: groups (lines 172-178), as (name, json_files) pairs in dict order
    group_idx,     \* main: how many groups the loop of line 212 has taken
    file_idx,      \* main: how many files of the group the loop of line 222 has finished
    main_pc,       \* main: "idle", "slugs", "loop", "parse", "extract", "write", "finalize",
                   \*       "done" or "crashed" (an exception left main)
    wb,            \* main: the sheets of the group's workbook
    data,          \* main: the parsed document
    layers,        \* main: the layers found in the document
    summary_rows,  \* main: summary_rows of the group
    all_pdf_types, \* main: all_pdf_types of the group
    group_results, \* main: group_results
    disk,          \* the files under output/, as (path, sheets) pairs
    log,           \* the steps taken so far, in order
    fetch_env,     \* fetch_capabilities: env_dict
    login_body,    \* fetch_capabilities: login_body
    token,         \* fetch_capabilities: token
    caps_data,     \* fetch_capabilities: caps_data
    requests,      \* the requests handed to urlopen so far, in order
    saved_file,    \* what input/<group>/<env>.json holds: "absent", "previous" (an earlier
                   \* run's document), "partial" (opened for writing, not fully written)
                   \* or "capabilities" (caps_data)
    fetch_pc,      \* "idle", "start", "login", "token", "caps", "save" or "done"
    fetch_result   \* fetch_capabilities: the outcome of the call

bboxVars == <<bbox, bbox_result>>
scanVars == <<root, stack, results, scan_pc, pushed, popped>>
rowVars == <<layer, row_result>>
sortVars == <<tags, sorted_tags, sort_pc>>
sheetVars == <<mode, base_columns, columns, ac_result, ac_calls, rows, sheet, sheet_pc>>
legendVars == <<base_column_descriptions, legend_wb, legend_extra, legend_result>>
\* The components added after the sheet writer.
mainVars == <<all_env_entries, group_slugs, groups, group_idx, file_idx, main_pc, wb, data,
              layers, summary_rows, all_pdf_types, group_results, disk, log>>
fetchVars == <<fetch_env, login_body, token, caps_data, requests, saved_file, fetch_pc,
               fetch_result>>
restVars == <<legendVars, mainVars, fetchVars>>
vars == <<bbox, bbox_result, root, stack, results, scan_pc, pushed, popped, layer, row_result,
          tags, sorted_tags, sort_pc,
          mode, base_columns, columns, ac_result, ac_calls, rows, sheet, sheet_pc,
          base_column_descriptions, legend_wb, legend_extra, legend_result,
          all_env_entries, group_slugs, groups, group_idx, file_idx, main_pc, wb, data,
          layers, summary_rows, all_pdf_types, group_results, disk, log,
          fetch_env, login_body, token, caps_data, requests, saved_file, fetch_pc,
          fetch_result>>

(***************************************************************************)
(* Characters and strings                                                  *)
(***************************************************************************)

\* The printable ASCII characters, code points 32..126, in code-point order.
AsciiTable == <<" ","!","DQUOTE","#","$","%","&","'","(",")","*","+",",","-",".","/","0","1","2","3","4","5","6","7","8","9",":",";","<","=",">","?","@","A","B","C","D","E","F","G","H","I","J","K","L","M","N","O","P","Q","R","S","T","U","V","W","X","Y","Z","[","BACKSLASH","]","^","_","BACKTICK","a","b","c","d","e","f","g","h","i","j","k","l","m","n","o","p","q","r","s","t","u","v","w","x","y","z","{","|","}","~">>

\* Python's ord() on a printable ASCII character.
Ord(c) == 31 + (CHOOSE i \in 1..Len(AsciiTable) : AsciiTable[i] = c)

\* Python's chr() on 32..126.
Chr(n) == AsciiTable[n - 31]

\* str.lower() on one character: "A".."Z" (65..90) map to "a".."z".
LowerChar(c) == IF Ord(c) >= 65 /\ Ord(c) <= 90 THEN Chr(Ord(c) + 32) ELSE c

\* str.lower()
Lower(s) == [i \in 1..Len(s) |-> LowerChar(s[i])]

\* s.startswith(p)
StartsWith(s, p) == Len(s) >= Len(p) /\ SubSeq(s, 1, Len(p)) = p

\* sub in s
Contains(s, sub) ==
    \E i \in 0..(Len(s) - Len(sub)) : SubSeq(s, i + 1, i + Len(sub)) = sub

\* s[n:]
DropPrefix(s, n) == SubSeq(s, n + 1, Len(s))

\* str.strip(): leading and trailing whitespace removed.
RECURSIVE LStrip(_)
LStrip(s) == IF s # <<>> /\ Head(s) = " " THEN LStrip(Tail(s)) ELSE s

RECURSIVE RStrip(_)
RStrip(s) ==
    IF s # <<>> /\ s[Len(s)] = " " THEN RStrip(SubSeq(s, 1, Len(s) - 1)) ELSE s

Strip(s) == RStrip(LStrip(s))

\* Python's < on strings: lexicographic by code point.
RECURSIVE StrLess(_, _)
StrLess(a, b) ==
    IF b = <<>> THEN FALSE
    ELSE IF a = <<>> THEN TRUE
    ELSE IF Head(a) # Head(b) THEN Ord(Head(a)) < Ord(Head(b))
    ELSE StrLess(Tail(a), Tail(b))

\* sep.join(parts) for a sequence of strings.
RECURSIVE Join(_, _)
Join(sep, parts) ==
    IF parts = <<>> THEN <<>>
    ELSE IF Len(parts) = 1 THEN parts[1]
    ELSE parts[1] \o sep \o Join(sep, Tail(parts))

\* The decimal digits of a natural number.
RECURSIVE NatDigits(_)
NatDigits(n) ==
    IF n < 10 THEN <<Chr(48 + n)>> ELSE NatDigits(n \div 10) \o <<Chr(48 + (n % 10))>>

\* str(n) for an int.
IntStr(n) == IF n < 0 THEN <<"-">> \o NatDigits(-n) ELSE NatDigits(n)

IsDigit(c) == Ord(c) >= 48 /\ Ord(c) <= 57

\* The value of a non-empty string of digits.
RECURSIVE DigitsValue(_)
DigitsValue(s) ==
    IF s = <<>> THEN 0
    ELSE 10 * DigitsValue(SubSeq(s, 1, Len(s) - 1)) + (Ord(s[Len(s)]) - 48)

(***************************************************************************)
(* JSON values as json.load builds them                                    *)
(***************************************************************************)

JV(t, n, s, items, keys) == [t |-> t, n |-> n, s |-> s, items |-> items, keys |-> keys]

JNull == JV("null", 0, <<>>, <<>>, <<>>)                  \* None
JBool(b) == JV("bool", IF b THEN 1 ELSE 0, <<>>, <<>>, <<>>)
JInt(n) == JV("int", n, <<>>, <<>>, <<>>)
\* An int literal too large for a float: sign * 10**400 (json.load keeps it an int).
JBigInt(sign) == JV("bigint", sign, <<>>, <<>>, <<>>)
JStr(s) == JV("str", 0, s, <<>>, <<>>)
JList(items) == JV("list", 0, <<>>, items, <<>>)
\* A dict keeps insertion order: keys[i] maps to items[i].
JDict(keys, items) == JV("dict", 0, <<>>, items, keys)

IsDict(v) == v.t = "dict"
IsList(v) == v.t = "list"
IsStr(v) == v.t = "str"

HasKey(d, key) == \E i \in 1..Len(d.keys) : d.keys[i] = key

\* d.get(key, default)
Get(d, key, default) ==
    IF HasKey(d, key)
    THEN d.items[CHOOSE i \in 1..Len(d.keys) : d.keys[i] = key]
    ELSE default

\* bool(v): None, False, 0, "", [] and {} are falsy.
Truthy(v) ==
    CASE v.t = "null" -> FALSE
      [] v.t = "bool" -> v.n = 1
      [] v.t = "int" -> v.n # 0
      [] v.t = "bigint" -> TRUE
      [] v.t = "str" -> v.s # <<>>
      [] v.t = "list" -> v.items # <<>>
      [] v.t = "dict" -> v.items # <<>>

\* a or b
Or(a, b) == IF Truthy(a) THEN a ELSE b

BigIntStr(sign) ==
    (IF sign < 0 THEN <<"-">> ELSE <<>>) \o <<"1">> \o [i \in 1..400 |-> "0"]

\* repr(v); the strings of the model hold no quote, backslash or backtick
\* (the table names them DQUOTE, BACKSLASH and BACKTICK).
RECURSIVE Repr(_)
Repr(v) ==
    CASE v.t = "null" -> <<"N","o","n","e">>
      [] v.t = "bool" -> IF v.n = 1 THEN <<"T","r","u","e">> ELSE <<"F","a","l","s","e">>
      [] v.t = "int" -> IntStr(v.n)
      [] v.t = "bigint" -> BigIntStr(v.n)
      [] v.t = "str" -> <<"'">> \o v.s \o <<"'">>
      [] v.t = "list" ->
            <<"[">> \o Join(<<","," ">>, [i \in 1..Len(v.items) |-> Repr(v.items[i])]) \o <<"]">>
      [] v.t = "dict" ->
            <<"{">> \o Join(<<","," ">>, [i \in 1..Len(v.items) |->
                        <<"'">> \o v.keys[i] \o <<"'",":"," ">> \o Repr(v.items[i])]) \o <<"}">>

\* str(v)
Str(v) == IF v.t = "str" THEN v.s ELSE Repr(v)

(***************************************************************************)
(* Outcomes of a call: it returned a value or raised an exception          *)
(***************************************************************************)

Pending(default) == [status |-> "pending", exc |-> "", ret |-> default]
Return(v) == [status |-> "returned", exc |-> "", ret |-> v]
Raise(e, default) == [status |-> "raised", exc |-> e, ret |-> default]

(***************************************************************************)
(* A component that a specification does not run stays in its idle state   *)
(***************************************************************************)

BboxIdle ==
    /\ bbox = [west |-> JNull, east |-> JNull, north |-> JNull, south |-> JNull]
    /\ bbox_result = Pending(FALSE)

ScanIdle ==
    /\ root = JNull
    /\ stack = <<>>
    /\ results = <<>>
    /\ scan_pc = "idle"
    /\ pushed = <<>>
    /\ popped = <<>>

RowIdle == layer = JNull /\ row_result = Pending(JNull)

SortIdle == tags = <<>> /\ sorted_tags = <<>> /\ sort_pc = "idle"

EmptySheet == [cells |-> <<>>, width |-> <<>>, freeze_panes |-> ""]

SheetIdle ==
    /\ mode = "base"
    /\ base_columns = <<>>
    /\ columns = <<>>
    /\ ac_result = <<>>
    /\ ac_calls = 0
    /\ rows = <<>>
    /\ sheet = EmptySheet
    /\ sheet_pc = "idle"

\* None, as a value of the model.
None == [name |-> <<>>, description |-> "None"]

LegendIdle ==
    /\ base_column_descriptions = <<>>
    /\ legend_wb = <<>>
    /\ legend_extra = None
    /\ legend_result = Pending(FALSE)

MainIdle ==
    /\ all_env_entries = <<>>
    /\ group_slugs = <<>>
    /\ groups = <<>>
    /\ group_idx = 0
    /\ file_idx = 0
    /\ main_pc = "idle"
    /\ wb = <<>>
    /\ data = JNull
    /\ layers = <<>>
    /\ summary_rows = <<>>
    /\ all_pdf_types = <<>>
    /\ group_results = <<>>
    /\ disk = <<>>
    /\ log = <<>>

\* The pair fetch_capabilities returns: each component is None or a value.
NoPath == [some |-> FALSE, value |-> <<>>]
NoError == [some |-> FALSE, value |-> ""]
Some(v) == [some |-> TRUE, value |-> v]

FetchIdle ==
    /\ fetch_env = <<>>
    /\ login_body = JNull
    /\ token = <<>>
    /\ caps_data = JNull
    /\ requests = <<>>
    /\ saved_file = "absent"
    /\ fetch_pc = "idle"
    /\ fetch_result = Pending([saved |-> NoPath, err |-> NoError])

RestIdle == LegendIdle /\ MainIdle /\ FetchIdle

(***************************************************************************)
(* core.py: bbox thresholds and is_global_bbox                             *)
(***************************************************************************)

GLOBAL_LON_THRESHOLD == 340
GLOBAL_LAT_THRESHOLD == 120

\* float() of a string, for the strings with an optional sign and digits only
\* (no blanks, fraction or exponent occur in the inputs of the model): a
\* string that is no number raises ValueError.
FloatOfStr(s) ==
    LET body == IF s # <<>> /\ s[1] \in {"-", "+"} THEN Tail(s) ELSE s
        neg == s # <<>> /\ s[1] = "-"
    IN IF body # <<>> /\ \A i \in 1..Len(body) : IsDigit(body[i])
       THEN Return(IF neg THEN -DigitsValue(body) ELSE DigitsValue(body))
       ELSE Raise("ValueError", 0)

\* float(v): ints convert exactly, True and False are 1.0 and 0.0, strings are
\* parsed, None, lists and dicts raise TypeError, an int beyond the float
\* range raises OverflowError.
Float(v) ==
    CASE v.t = "int" -> Return(v.n)
      [] v.t = "bool" -> Return(v.n)
      [] v.t = "str" -> FloatOfStr(v.s)
      [] v.t = "bigint" -> Raise("OverflowError", 0)
      [] OTHER -> Raise("TypeError", 0)

\* The first exception raised by a sequence of outcomes, "" when none.
RECURSIVE FirstExc(_)
FirstExc(outs) ==
    IF outs = <<>> THEN ""
    ELSE IF outs[1].status = "raised" THEN outs[1].exc
    ELSE FirstExc(Tail(outs))

is_global_bbox_strict(west, east, north, south) ==
    LET fe == Float(east)
        fw == Float(west)
        fn == Float(north)
        fs == Float(south)
        exc == FirstExc(<<fe, fw, fn, fs>>)
    IN IF exc = ""
       THEN Return((fe.ret - fw.ret) > GLOBAL_LON_THRESHOLD
                   /\ (fn.ret - fs.ret) > GLOBAL_LAT_THRESHOLD)
       ELSE IF exc \in {"TypeError", "ValueError"} THEN Return(FALSE)
       ELSE Raise(exc, FALSE)

\* The conversions are evaluated east, west, north, south; the first that
\* fails decides: TypeError and ValueError are caught, anything else escapes.
is_global_bbox(west, east, north, south) ==
    LET fe == Float(east)
        fw == Float(west)
        fn == Float(north)
        fs == Float(south)
        exc == FirstExc(<<fe, fw, fn, fs>>)
    IN IF exc = ""
       THEN Return((fe.ret - fw.ret) >= GLOBAL_LON_THRESHOLD
                   /\ (fn.ret - fs.ret) >= GLOBAL_LAT_THRESHOLD)
       ELSE IF exc \in {"TypeError", "ValueError"} THEN Return(FALSE)
       ELSE Raise(exc, FALSE)

(***************************************************************************)
(* core.py: find_hazard_layers                                             *)
(***************************************************************************)

KEYWORD_LIST == <<"k","e","y","w","o","r","d","_","l","i","s","t">>
HAZARDLOOKUP == <<"h","a","z","a","r","d","l","o","o","k","u","p">>

\* The node of the document at a path: a path is the sequence of positions
\* taken through the items of lists and the values of dicts.  Two nodes of a
\* tree are the same object exactly when their paths are equal.
RECURSIVE At(_, _)
At(v, path) == IF path = <<>> THEN v ELSE At(v.items[Head(path)], Tail(path))

\* The paths of the children of the node at path, in the order of
\* node.values() or of the list.
ChildPaths(v, path) == [i \in 1..Len(At(v, path).items) |-> path \o <<i>>]

\* Line 95-96: kw = node.get("keyword_list") or []; the node matches when kw
\* is a list and "hazardlookup" is in str(k).lower() for some element k.
IsHazardLayer(node) ==
    LET kw == Or(Get(node, KEYWORD_LIST, JNull), JList(<<>>))
    IN IsList(kw)
       /\ \E i \in 1..Len(kw.items) : Contains(Lower(Str(kw.items[i])), HAZARDLOOKUP)

\* A loop body that reads the last node of the stack and leaves it there.
LoopBodyPeek(obj, st, res) ==
    LET path == st[Len(st)]
        node == At(obj, path)
    IN IF IsDict(node)
       THEN IF IsHazardLayer(node)
            THEN [stack |-> st, results |-> Append(res, path)]
            ELSE [stack |-> st \o ChildPaths(obj, path), results |-> res]
       ELSE IF IsList(node)
       THEN [stack |-> st \o ChildPaths(obj, path), results |-> res]
       ELSE [stack |-> st, results |-> res]

\* A loop body that also descends into a node it has recorded.
LoopBodyDescending(obj, st, res) ==
    LET path == st[Len(st)]
        rest == SubSeq(st, 1, Len(st) - 1)
        node == At(obj, path)
    IN IF IsDict(node)
       THEN IF IsHazardLayer(node)
            THEN [stack |-> rest \o ChildPaths(obj, path), results |-> Append(res, path)]
            ELSE [stack |-> rest \o ChildPaths(obj, path), results |-> res]
       ELSE IF IsList(node)
       THEN [stack |-> rest \o ChildPaths(obj, path), results |-> res]
       ELSE [stack |-> rest, results |-> res]

\* Lines 93-101, one iteration of the loop: pop the last node; a matching dict
\* is appended to results, any other dict has its values pushed, a list has
\* its elements pushed, a scalar is dropped.
LoopBody(obj, st, res) ==
    LET path == st[Len(st)]
        rest == SubSeq(st, 1, Len(st) - 1)
        node == At(obj, path)
    IN IF IsDict(node)
       THEN IF IsHazardLayer(node)
            THEN [stack |-> rest, results |-> Append(res, path)]
            ELSE [stack |-> rest \o ChildPaths(obj, path), results |-> res]
       ELSE IF IsList(node)
       THEN [stack |-> rest \o ChildPaths(obj, path), results |-> res]
       ELSE [stack |-> rest, results |-> res]

(***************************************************************************)
(* The documents the scanner is run on                                     *)
(***************************************************************************)

MaxNodes == 3   \* dicts and lists in a document, keyword lists not counted
MaxWidth == 2   \* children of one dict or list

\* What a dict of a document holds under "keyword_list": nothing, a list
\* that matches, a list that does not, a string (no list), or, for "child",
\* the dict's first child.
KwChoices ==
    { "absent", "match", "other", "string", "child" }

KwValue(choice) ==
    CASE choice = "match" -> JList(<<JStr(<<"H","A","Z","A","R","D","L","O","O","K","U","P",":","f","o","o">>)>>)
      [] choice = "other" -> JList(<<JStr(<<"u","n","r","e","l","a","t","e","d">>)>>)
      [] choice = "string" -> JStr(<<"h","a","z","a","r","d","l","o","o","k","u","p">>)

\* The key of the i-th child of a dict: "k1", "k2", ...
ChildKey(i) == <<"k">> \o NatDigits(i)

MakeDict(choice, children) ==
    CASE choice = "absent" ->
            JDict([i \in 1..Len(children) |-> ChildKey(i)], children)
      [] choice = "child" ->
            JDict([i \in 1..Len(children) |-> IF i = 1 THEN KEYWORD_LIST ELSE ChildKey(i)],
                  children)
      [] OTHER ->
            JDict(<<KEYWORD_LIST>> \o [i \in 1..Len(children) |-> ChildKey(i)],
                  <<KwValue(choice)>> \o children)

\* ForestOf(table, n, w): the sequences of w containers with n dicts and lists
\* in all, where table[j] holds the containers with exactly j of them.
RECURSIVE ForestOf(_, _, _)
ForestOf(table, n, w) ==
    IF w = 0 THEN (IF n = 0 THEN {<<>>} ELSE {})
    ELSE UNION { { <<t>> \o f : t \in table[j], f \in ForestOf(table, n - j, w - 1) }
                 : j \in 1..n }

\* The dicts and lists over a set of child sequences.
ContainersOver(kids) ==
    { JList(f) : f \in kids }
       \cup { MakeDict(c, f) : c \in KwChoices \ {"child"}, f \in kids }
       \cup { MakeDict("child", f) : f \in kids \ {<<>>} }

\* ContainerTable(n)[j], j in 1..n: the containers with exactly j dicts and lists.
RECURSIVE ContainerTable(_)
ContainerTable(n) ==
    IF n = 0 THEN <<>>
    ELSE LET table == ContainerTable(n - 1)
         IN Append(table,
                   ContainersOver(UNION { ForestOf(table, n - 1, w) : w \in 0..MaxWidth }))

\* The documents with at most n dicts and lists; a scalar is a document too.
DocumentsUpTo(n) ==
    { JNull, JStr(<<"h","a","z","a","r","d","l","o","o","k","u","p">>) } \cup UNION { ContainerTable(n)[j] : j \in 1..n }

\* Line 91 has run: the stack holds obj, the caller's list is empty (main, line 235).
InitScan ==
    /\ root \in DocumentsUpTo(MaxNodes)
    /\ stack = << <<>> >>
    /\ results = <<>>
    /\ scan_pc = "loop"
    /\ pushed = << <<>> >>
    /\ popped = <<>>
    /\ BboxIdle
    /\ RowIdle
    /\ SortIdle
    /\ SheetIdle
    /\ RestIdle

\* Lines 92-101: one iteration.
FindHazardLayersStep ==
    /\ scan_pc = "loop"
    /\ stack # <<>>
    /\ LET out == LoopBody(root, stack, results)
       IN /\ stack' = out.stack
          /\ results' = out.results
          /\ popped' = Append(popped, stack[Len(stack)])
          /\ pushed' = pushed \o SubSeq(out.stack, Len(stack), Len(out.stack))
    /\ UNCHANGED <<root, scan_pc, bboxVars, rowVars, sortVars, sheetVars, restVars>>

\* Line 92: the stack is empty, the function returns.
FindHazardLayersReturn ==
    /\ scan_pc = "loop"
    /\ stack = <<>>
    /\ scan_pc' = "done"
    /\ UNCHANGED <<root, stack, results, pushed, popped, bboxVars, rowVars, sortVars, sheetVars, restVars>>

NextScan == FindHazardLayersStep \/ FindHazardLayersReturn

SpecScan == InitScan /\ [][NextScan]_vars

\* Line 93: an iteration takes the top of the stack off it.  Every
\* FindHazardLayersStep is such a step, and one is possible exactly when the
\* loop's condition holds.
PopsTop ==
    /\ scan_pc = "loop"
    /\ stack # <<>>
    /\ popped' = Append(popped, stack[Len(stack)])

\* The loop is sequential code: while the stack is not empty the next
\* iteration runs, and when it is empty the function returns.
SpecScanFair == SpecScan /\ WF_popped(PopsTop) /\ WF_vars(FindHazardLayersReturn)

\* Every path of a document, to containers and scalars alike.
RECURSIVE PathsBelow(_, _)
PathsBelow(v, path) ==
    {path} \cup UNION { PathsBelow(v, path \o <<i>>) : i \in 1..Len(At(v, path).items) }

SeqRange(q) == { q[i] : i \in 1..Len(q) }

IsProperPrefix(q, p) == Len(q) < Len(p) /\ SubSeq(p, 1, Len(q)) = q

\* The claim's match: a mapping whose keyword_list is a sequence with an
\* element whose lower-cased string form contains "hazardlookup".
C1_Matches(node) ==
    /\ IsDict(node)
    /\ HasKey(node, KEYWORD_LIST)
    /\ IsList(Get(node, KEYWORD_LIST, JNull))
    /\ \E k \in SeqRange(Get(node, KEYWORD_LIST, JNull).items) :
           Contains(Lower(Str(k)), HAZARDLOOKUP)

C1_UnderMatch(p) ==
    \E q \in PathsBelow(root, <<>>) : IsProperPrefix(q, p) /\ C1_Matches(At(root, q))

\* C1: when find_hazard_layers returns, results holds, once each, exactly the
\* matching mappings of the document that have no matching proper ancestor;
\* and at no time is a node below a matching mapping pending or recorded.
C1_ExactlyOutermostMatches ==
    /\ \A p \in SeqRange(stack) \cup SeqRange(results) : ~C1_UnderMatch(p)
    /\ scan_pc = "done" =>
         /\ SeqRange(results) =
               { p \in PathsBelow(root, <<>>) :
                     C1_Matches(At(root, p)) /\ ~C1_UnderMatch(p) }
         /\ Cardinality(SeqRange(results)) = Len(results)

\* C1's case: the scan of a document with a matching mapping nested in a
\* matching mapping, and with another match below a mapping whose
\* keyword_list is no sequence, has returned.
C1_Witness ==
    /\ scan_pc = "done"
    /\ results # <<>>
    /\ \E p \in PathsBelow(root, <<>>) : C1_Matches(At(root, p)) /\ C1_UnderMatch(p)
    /\ \E p \in SeqRange(results) : \E q \in PathsBelow(root, <<>>) :
           /\ IsProperPrefix(q, p)
           /\ IsDict(At(root, q))
           /\ HasKey(At(root, q), KEYWORD_LIST)
           /\ ~IsList(Get(At(root, q), KEYWORD_LIST, JNull))

(***************************************************************************)
(* core.py: extract_row                                                    *)
(***************************************************************************)

PDF_HAZARD_PREFIX == <<"p","d","f",":","h","a","z","a","r","d","l","o","o","k","u","p",":">>
NO_PDF_LABEL == <<"n","o","t"," ","a","t","t","a","c","h","e","d"," ","t","o"," ","P","D","F"," ","V","2">>

EMPTY == JStr(<<>>)

\* for k in kw: a list gives its elements, a str its characters, a dict its
\* keys; anything else is not iterable (TypeError).
Iter(v) ==
    CASE v.t = "list" -> Return(v.items)
      [] v.t = "str" -> Return([i \in 1..Len(v.s) |-> JStr(<<v.s[i]>>)])
      [] v.t = "dict" -> Return([i \in 1..Len(v.keys) |-> JStr(v.keys[i])])
      [] OTHER -> Raise("TypeError", <<>>)

\* ", ".join(parts) for a sequence of values: TypeError unless all are str.
JoinValues(parts) ==
    IF \A i \in 1..Len(parts) : IsStr(parts[i])
    THEN Return(Join(<<","," ">>, [i \in 1..Len(parts) |-> parts[i].s]))
    ELSE Raise("TypeError", <<>>)

\* The elements of a sequence that satisfy a test, in order.
RECURSIVE SelectDicts(_)
SelectDicts(q) ==
    IF q = <<>> THEN <<>>
    ELSE IF IsDict(Head(q)) THEN <<Head(q)>> \o SelectDicts(Tail(q))
    ELSE SelectDicts(Tail(q))

\* Does k qualify as a PDF keyword (line 142)?
IsPdfKeyword(k) == IsStr(k) /\ StartsWith(Lower(k.s), PDF_HAZARD_PREFIX)

\* A tag taken from the last qualifying keyword, its case kept.
RECURSIVE pdf_v2_last(_)
pdf_v2_last(ks) ==
    IF ks = <<>> THEN NO_PDF_LABEL
    ELSE IF IsPdfKeyword(ks[Len(ks)])
    THEN DropPrefix(ks[Len(ks)].s, Len(PDF_HAZARD_PREFIX))
    ELSE pdf_v2_last(SubSeq(ks, 1, Len(ks) - 1))

\* Lines 140-144: next(... for k in kw if ..., NO_PDF_LABEL) over the elements
\* ks of kw: the first qualifying keyword, lower-cased, after the prefix.
RECURSIVE pdf_v2(_)
pdf_v2(ks) ==
    IF ks = <<>> THEN NO_PDF_LABEL
    ELSE IF IsPdfKeyword(Head(ks))
    THEN DropPrefix(Lower(Head(ks).s), Len(PDF_HAZARD_PREFIX))
    ELSE pdf_v2(Tail(ks))

\* The keys of the record extract_row returns, in the order of lines 147-160.
ROW_KEYS ==
    << <<"n","a","m","e">>, <<"t","i","t","l","e">>, <<"a","b","s","t","r","a","c","t">>, <<"q","u","e","r","y","a","b","l","e">>, <<"c","r","s">>, <<"w","e","s","t","_","b","o","u","n","d">>,
       <<"e","a","s","t","_","b","o","u","n","d">>, <<"n","o","r","t","h","_","b","o","u","n","d">>, <<"s","o","u","t","h","_","b","o","u","n","d">>, <<"i","s","_","g","l","o","b","a","l">>, <<"_","g","l","o","b","a","l">>,
       <<"p","d","f","_","v","2">>, <<"s","t","y","l","e","_","n","a","m","e","s">>, <<"k","e","y","w","o","r","d","_","l","i","s","t">> >>

\* Lines 114-161.  The statements run in order and the first exception ends
\* the call: the join of the style names (126), the join of the CRS (131),
\* is_global_bbox (136), the iteration over kw (140) and abstract.strip (149).
extract_row(lyr) ==
    LET bbox0 == Or(Get(lyr, <<"e","x","_","g","e","o","g","r","a","p","h","i","c","_","b","o","u","n","d","i","n","g","_","b","o","x">>, JNull), JDict(<<>>, <<>>))
        bb == IF IsDict(bbox0) THEN bbox0 ELSE JDict(<<>>, <<>>)
        west == Get(bb, <<"w","e","s","t","_","b","o","u","n","d","_","l","o","n","g","i","t","u","d","e">>, EMPTY)
        east == Get(bb, <<"e","a","s","t","_","b","o","u","n","d","_","l","o","n","g","i","t","u","d","e">>, EMPTY)
        north == Get(bb, <<"n","o","r","t","h","_","b","o","u","n","d","_","l","a","t","i","t","u","d","e">>, EMPTY)
        south == Get(bb, <<"s","o","u","t","h","_","b","o","u","n","d","_","l","a","t","i","t","u","d","e">>, EMPTY)
        styles == Or(Get(lyr, <<"s","t","y","l","e">>, JNull), JList(<<>>))
        style_names ==
            IF IsList(styles)
            THEN LET ds == SelectDicts(styles.items)
                 IN JoinValues([i \in 1..Len(ds) |-> Get(ds[i], <<"n","a","m","e">>, EMPTY)])
            ELSE Return(<<>>)
        crs == Or(Get(lyr, <<"C","R","S">>, JNull), JList(<<>>))
        crs_str == IF IsList(crs) THEN JoinValues(crs.items) ELSE Return(Str(crs))
        kw == Or(Get(lyr, KEYWORD_LIST, JNull), JList(<<>>))
        kw_str ==
            IF IsList(kw)
            THEN Join(<<","," ">>, [i \in 1..Len(kw.items) |-> Str(kw.items[i])])
            ELSE Str(kw)
        global_flag == is_global_bbox(west, east, north, south)
        kw_iter == Iter(kw)
        abstract0 == Or(Get(lyr, <<"a","b","s","t","r","a","c","t">>, JNull), EMPTY)
        abstract ==
            IF IsStr(abstract0) THEN Return(Strip(abstract0.s))
            ELSE Raise("AttributeError", <<>>)
        exc == FirstExc(<<style_names, crs_str, global_flag, kw_iter, abstract>>)
    IN IF exc # "" THEN Raise(exc, JNull)
       ELSE Return(JDict(ROW_KEYS,
              << Get(lyr, <<"n","a","m","e">>, EMPTY),
                 Get(lyr, <<"t","i","t","l","e">>, EMPTY),
                 JStr(abstract.ret),
                 Get(lyr, <<"q","u","e","r","y","a","b","l","e">>, EMPTY),
                 JStr(crs_str.ret),
                 west, east, north, south,
                 JStr(IF global_flag.ret THEN <<"Y","e","s">> ELSE <<"N","o">>),
                 JBool(global_flag.ret),
                 JStr(pdf_v2(kw_iter.ret)),
                 JStr(style_names.ret),
                 JStr(kw_str) >>))

(***************************************************************************)
(* The layers the row extractor is run on                                  *)
(***************************************************************************)

\* A field of a layer: its key and the values a document may give it; Absent
\* stands for a layer without the key.
Absent == JV("absent", 0, <<>>, <<>>, <<>>)

NameDict(v) == JDict(<<<<"n","a","m","e">>>>, <<v>>)

BboxDict(w, e, n, so) ==
    JDict(<< <<"w","e","s","t","_","b","o","u","n","d","_","l","o","n","g","i","t","u","d","e">>, <<"e","a","s","t","_","b","o","u","n","d","_","l","o","n","g","i","t","u","d","e">>,
             <<"n","o","r","t","h","_","b","o","u","n","d","_","l","a","t","i","t","u","d","e">>, <<"s","o","u","t","h","_","b","o","u","n","d","_","l","a","t","i","t","u","d","e">> >>, <<w, e, n, so>>)

AbstractChoices ==
    { Absent, JNull, JStr(<<" "," ","F","i","r","e"," ","r","i","s","k"," ">>), JInt(5), JList(<<JStr(<<"x">>)>>) }

CrsChoices ==
    { Absent, JList(<<JStr(<<"E","P","S","G",":","4","3","2","6">>), JStr(<<"C","R","S",":","8","4">>)>>), JStr(<<"E","P","S","G",":","4","3","2","6">>),
      JList(<<JInt(4326)>>), JInt(4326) }

StyleChoices ==
    { Absent,
      JList(<<NameDict(JStr(<<"d","e","f","a","u","l","t">>)), JStr(<<"x">>), NameDict(JStr(<<"a","l","t">>))>>),
      JList(<<NameDict(JInt(5))>>),
      JList(<<JDict(<<>>, <<>>)>>),
      NameDict(JStr(<<"s","o","l","o">>)) }

KeywordChoices ==
    { Absent,
      JList(<<JStr(<<"h","a","z","a","r","d","l","o","o","k","u","p">>)>>),
      JList(<<JStr(<<"p","d","f",":","h","a","z","a","r","d","l","o","o","k","u","p",":","L","o","c","a","l">>)>>),
      JList(<<JInt(7), JStr(<<"x","p","d","f",":","h","a","z","a","r","d","l","o","o","k","u","p",":","a">>), JStr(<<"P","D","F",":","H","a","z","a","r","d","L","o","o","k","u","p",":","G","l","o","b","a","l",":","R","i","s","k">>),
              JStr(<<"p","d","f",":","h","a","z","a","r","d","l","o","o","k","u","p",":","l","o","c","a","l">>)>>),
      JList(<<JStr(<<"h","a","z","a","r","d","l","o","o","k","u","p">>), JStr(<<"p","d","f",":","h","a","z","a","r","d","l","o","o","k","u","p",":">>)>>),
      JList(<<JStr(<<"P","D","F",":","h","a","z","a","r","d","l","o","o","k","u","p",":","n","o","t"," ","a","t","t","a","c","h","e","d"," ","t","o"," ","P","D","F"," ","V","2">>)>>),
      JStr(<<"p","d","f",":","h","a","z","a","r","d","l","o","o","k","u","p",":","l","o","c","a","l">>),
      JDict(<<<<"p","d","f",":","h","a","z","a","r","d","l","o","o","k","u","p",":","k","e","y">>>>, <<JNull>>),
      JInt(5) }

BboxChoices ==
    { Absent, JNull, JStr(<<"w","o","r","l","d">>),
      BboxDict(JInt(-180), JInt(180), JInt(90), JInt(-90)),
      BboxDict(JInt(-10), JInt(10), JInt(10), JInt(-10)),
      JDict(<<<<"w","e","s","t","_","b","o","u","n","d","_","l","o","n","g","i","t","u","d","e">>>>, <<JInt(-180)>>),
      BboxDict(JInt(-180), JBigInt(1), JInt(90), JInt(-90)) }

NameChoices == { Absent, JStr(<<"f","i","r","e","s">>) }
QueryableChoices == { Absent, JInt(1), JInt(0) }

\* The dict with the given keys, the absent ones left out.
RECURSIVE DictOf(_, _)
DictOf(keys, values) ==
    IF keys = <<>> THEN JDict(<<>>, <<>>)
    ELSE LET rest == DictOf(Tail(keys), Tail(values))
         IN IF Head(values) = Absent THEN rest
            ELSE JDict(<<Head(keys)>> \o rest.keys, <<Head(values)>> \o rest.items)

LAYER_KEYS ==
    << <<"n","a","m","e">>, <<"q","u","e","r","y","a","b","l","e">>, <<"a","b","s","t","r","a","c","t">>, KEYWORD_LIST, <<"C","R","S">>,
       <<"e","x","_","g","e","o","g","r","a","p","h","i","c","_","b","o","u","n","d","i","n","g","_","b","o","x">>, <<"s","t","y","l","e">> >>

\* The layers over the given keys, each field taking each of its values.
LayersOver(keys) ==
    { DictOf(keys, <<nm, q, a, k, c, b, st>>) :
        nm \in NameChoices, q \in QueryableChoices, a \in AbstractChoices,
        k \in KeywordChoices, c \in CrsChoices, b \in BboxChoices, st \in StyleChoices }

InitRow ==
    /\ layer \in LayersOver(LAYER_KEYS)
    /\ row_result = Pending(JNull)
    /\ BboxIdle
    /\ ScanIdle
    /\ SortIdle
    /\ SheetIdle
    /\ RestIdle

\* main, line 237: extract_row(layer).
ExtractRowCall ==
    /\ row_result.status = "pending"
    /\ row_result' = extract_row(layer)
    /\ UNCHANGED <<layer, bboxVars, scanVars, sortVars, sheetVars, restVars>>

NextRow == ExtractRowCall

SpecRow == InitRow /\ [][NextRow]_vars

\* C4: extract_row raises no exception, whatever the values under abstract,
\* CRS, style, keyword_list and ex_geographic_bounding_box: it returns a record.
C4_NeverRaises ==
    row_result.status # "pending" => row_result.status = "returned"

\* The positions of the elements of a keyword list that are strings whose
\* lower-cased form starts with "pdf:hazardlookup:".
C5_Qualifying(ks) ==
    { i \in 1..Len(ks) : ks[i].t = "str" /\ StartsWith(Lower(ks[i].s), <<"p","d","f",":","h","a","z","a","r","d","l","o","o","k","u","p",":">>) }

C5_First(ks) == CHOOSE i \in C5_Qualifying(ks) : \A j \in C5_Qualifying(ks) : i <= j

C5_KeywordList == Get(layer, KEYWORD_LIST, JList(<<>>))

\* C5: for a layer whose keyword_list is a sequence (or missing), the secondary
\* tag of the returned record is the lower-cased remainder, after the prefix,
\* of the first element that is a string starting (case-insensitively) with
\* "pdf:hazardlookup:", whatever follows it in the list; it is the sentinel
\* "not attached to PDF V2" when no element qualifies.
C5_TagFromFirstKeyword ==
    (row_result.status = "returned" /\ IsList(C5_KeywordList))
    => LET ks == C5_KeywordList.items
           tag == Get(row_result.ret, <<"p","d","f","_","v","2">>, JNull)
       IN /\ tag.t = "str"
          /\ C5_Qualifying(ks) = {} => tag.s = <<"n","o","t"," ","a","t","t","a","c","h","e","d"," ","t","o"," ","P","D","F"," ","V","2">>
          /\ C5_Qualifying(ks) # {} =>
                tag.s = Lower(SubSeq(ks[C5_First(ks)].s, 18, Len(ks[C5_First(ks)].s)))

\* C5's case: a row was extracted from a list with a non-string element, then
\* two qualifying keywords in mixed case, and the tag is "global:risk".
C5_Witness ==
    /\ row_result.status = "returned"
    /\ IsList(C5_KeywordList)
    /\ Cardinality(C5_Qualifying(C5_KeywordList.items)) >= 2
    /\ \E i \in 1..Len(C5_KeywordList.items) : C5_KeywordList.items[i].t # "str"
    /\ Get(row_result.ret, <<"p","d","f","_","v","2">>, JNull) = JStr(<<"g","l","o","b","a","l",":","r","i","s","k">>)

(***************************************************************************)
(* pdf.py: sort_key, and the sort of main (line 275)                       *)
(***************************************************************************)

PDF_COL_ORDER == << <<"g","l","o","b","a","l",":","r","i","s","k">>, <<"g","l","o","b","a","l",":","a","d","d","i","t","i","o","n","a","l">>, <<"l","o","c","a","l">> >>

\* f"{n:04d}": at least four digits, zero-padded.
Format04d(n) ==
    LET d == NatDigits(n)
    IN [i \in 1..(IF Len(d) < 4 THEN 4 - Len(d) ELSE 0) |-> "0"] \o d

\* PDF_COL_ORDER.index(t), 0-based; the caller tests membership first
\* (ValueError otherwise).
IndexOf(q, t) == (CHOOSE i \in 1..Len(q) : q[i] = t /\ \A j \in 1..(i - 1) : q[j] # t) - 1

\* A key that gives the sentinel no bucket of its own.
sort_key_plain(t) ==
    IF t \in SeqRange(PDF_COL_ORDER)
    THEN [bucket |-> 0, text |-> Format04d(IndexOf(PDF_COL_ORDER, t))]
    ELSE [bucket |-> 1, text |-> t]

\* Lines 32-43: the (int, str) tuple of a tag.
sort_key(t) ==
    IF t = NO_PDF_LABEL THEN [bucket |-> 2, text |-> <<>>]
    ELSE IF t \in SeqRange(PDF_COL_ORDER)
    THEN [bucket |-> 0, text |-> Format04d(IndexOf(PDF_COL_ORDER, t))]
    ELSE [bucket |-> 1, text |-> t]

\* Python's < on two (int, str) tuples.
KeyLess(a, b) ==
    a.bucket < b.bucket \/ (a.bucket = b.bucket /\ StrLess(a.text, b.text))

\* list.sort(key=sort_key) is stable: an element goes after those already
\* placed whose key is not greater.
RECURSIVE InsertByKey(_, _)
InsertByKey(q, x) ==
    IF q = <<>> THEN <<x>>
    ELSE IF KeyLess(sort_key(x), sort_key(Head(q))) THEN <<x>> \o q
    ELSE <<Head(q)>> \o InsertByKey(Tail(q), x)

RECURSIVE SortByKey(_)
SortByKey(q) ==
    IF q = <<>> THEN <<>>
    ELSE InsertByKey(SortByKey(SubSeq(q, 1, Len(q) - 1)), q[Len(q)])

MaxTags == 5    \* tags of one group

\* The tags of a group, lower-cased as extract_row leaves them: the canonical
\* ones, unknown ones (one empty, one a prefix of another), and the sentinel.
TagValues ==
    { <<"g","l","o","b","a","l",":","r","i","s","k">>, <<"g","l","o","b","a","l",":","a","d","d","i","t","i","o","n","a","l">>, <<"l","o","c","a","l">>, <<"u","n","k","n","o","w","n",":","t","a","g">>, <<"u","n","k","n","o","w","n">>,
      <<"z","o","n","e",":","2">>, <<>>, NO_PDF_LABEL }

\* all_pdf_types holds each tag once (main, lines 252-254).
\* The lists of n distinct tags.
RECURSIVE TagListsOfLen(_)
TagListsOfLen(n) ==
    IF n = 0 THEN {<<>>}
    ELSE UNION { { Append(q, t) : t \in TagValues \ SeqRange(q) }
                 : q \in TagListsOfLen(n - 1) }

TagListsUpTo(n) == UNION { TagListsOfLen(k) : k \in 0..n }

InitSort ==
    /\ tags \in TagListsUpTo(MaxTags)
    /\ sorted_tags = <<>>
    /\ sort_pc = "unsorted"
    /\ BboxIdle
    /\ ScanIdle
    /\ RowIdle
    /\ SheetIdle
    /\ RestIdle

\* main, line 275: all_pdf_types.sort(key=pdf.sort_key)
SortTags ==
    /\ sort_pc = "unsorted"
    /\ sorted_tags' = SortByKey(tags)
    /\ sort_pc' = "sorted"
    /\ UNCHANGED <<tags, bboxVars, scanVars, rowVars, sheetVars, restVars>>

NextSort == SortTags

SpecSort == InitSort /\ [][NextSort]_vars

\* The place of a tag in the claimed order: the canonical tags, the others,
\* the sentinel.
C6_Class(t) ==
    IF t = <<"n","o","t"," ","a","t","t","a","c","h","e","d"," ","t","o"," ","P","D","F"," ","V","2">> THEN 2
    ELSE IF t \in { <<"g","l","o","b","a","l",":","r","i","s","k">>, <<"g","l","o","b","a","l",":","a","d","d","i","t","i","o","n","a","l">>, <<"l","o","c","a","l">> } THEN 0
    ELSE 1

C6_CanonicalPos(t) ==
    CASE t = <<"g","l","o","b","a","l",":","r","i","s","k">> -> 1
      [] t = <<"g","l","o","b","a","l",":","a","d","d","i","t","i","o","n","a","l">> -> 2
      [] t = <<"l","o","c","a","l">> -> 3

\* a comes before b alphabetically: a is a proper prefix of b, or at the first
\* position where they differ a has the smaller character.
C6_AlphaBefore(a, b) ==
    \E i \in 1..(Len(b)) :
        /\ Len(a) >= i - 1
        /\ SubSeq(a, 1, i - 1) = SubSeq(b, 1, i - 1)
        /\ (Len(a) = i - 1 \/ Ord(a[i]) < Ord(b[i]))

C6_Before(a, b) ==
    \/ C6_Class(a) < C6_Class(b)
    \/ C6_Class(a) = 0 /\ C6_Class(b) = 0 /\ C6_CanonicalPos(a) < C6_CanonicalPos(b)
    \/ C6_Class(a) = 1 /\ C6_Class(b) = 1 /\ C6_AlphaBefore(a, b)

\* C6: the keys of two distinct tags are never equal and always compare one
\* way; the sorted list holds the tags of the input, the canonical ones first
\* in list order, then the others alphabetically, the sentinel last; and
\* [local, sentinel, global:risk, global:additional, unknown:tag] sorts to
\* [global:risk, global:additional, local, unknown:tag, sentinel].
C6_SortOrder ==
    /\ \A a, b \in SeqRange(tags) :
          a # b => /\ sort_key(a) # sort_key(b)
                   /\ KeyLess(sort_key(a), sort_key(b)) # KeyLess(sort_key(b), sort_key(a))
                   /\ KeyLess(sort_key(a), sort_key(b)) = C6_Before(a, b)
    /\ sort_pc = "sorted" =>
          /\ Len(sorted_tags) = Len(tags)
          /\ SeqRange(sorted_tags) = SeqRange(tags)
          /\ \A i \in 1..(Len(sorted_tags) - 1) :
                C6_Before(sorted_tags[i], sorted_tags[i + 1])
          /\ tags = << <<"l","o","c","a","l">>, <<"n","o","t"," ","a","t","t","a","c","h","e","d"," ","t","o"," ","P","D","F"," ","V","2">>, <<"g","l","o","b","a","l",":","r","i","s","k">>,
                       <<"g","l","o","b","a","l",":","a","d","d","i","t","i","o","n","a","l">>, <<"u","n","k","n","o","w","n",":","t","a","g">> >>
                => sorted_tags = << <<"g","l","o","b","a","l",":","r","i","s","k">>, <<"g","l","o","b","a","l",":","a","d","d","i","t","i","o","n","a","l">>, <<"l","o","c","a","l">>,
                                    <<"u","n","k","n","o","w","n",":","t","a","g">>, <<"n","o","t"," ","a","t","t","a","c","h","e","d"," ","t","o"," ","P","D","F"," ","V","2">> >>

\* C6's case: the list of the example has been sorted.
C6_Witness ==
    /\ sort_pc = "sorted"
    /\ tags = << <<"l","o","c","a","l">>, <<"n","o","t"," ","a","t","t","a","c","h","e","d"," ","t","o"," ","P","D","F"," ","V","2">>, <<"g","l","o","b","a","l",":","r","i","s","k">>,
                 <<"g","l","o","b","a","l",":","a","d","d","i","t","i","o","n","a","l">>, <<"u","n","k","n","o","w","n",":","t","a","g">> >>
    /\ sorted_tags[5] = <<"n","o","t"," ","a","t","t","a","c","h","e","d"," ","t","o"," ","P","D","F"," ","V","2">>

(***************************************************************************)
(* core.py: column definitions, styles and write_sheet; pdf.active_columns *)
(***************************************************************************)

Col(key, label) == [key |-> key, label |-> label]

BASE_COLUMNS ==
    << Col(<<"n","a","m","e">>, <<"L","a","y","e","r"," ","N","a","m","e">>),
       Col(<<"t","i","t","l","e">>, <<"T","i","t","l","e">>),
       Col(<<"a","b","s","t","r","a","c","t">>, <<"A","b","s","t","r","a","c","t">>),
       Col(<<"q","u","e","r","y","a","b","l","e">>, <<"Q","u","e","r","y","a","b","l","e">>),
       Col(<<"c","r","s">>, <<"C","R","S">>),
       Col(<<"w","e","s","t","_","b","o","u","n","d">>, <<"W","e","s","t"," ","B","o","u","n","d"," ","L","o","n">>),
       Col(<<"e","a","s","t","_","b","o","u","n","d">>, <<"E","a","s","t"," ","B","o","u","n","d"," ","L","o","n">>),
       Col(<<"n","o","r","t","h","_","b","o","u","n","d">>, <<"N","o","r","t","h"," ","B","o","u","n","d"," ","L","a","t">>),
       Col(<<"s","o","u","t","h","_","b","o","u","n","d">>, <<"S","o","u","t","h"," ","B","o","u","n","d"," ","L","a","t">>),
       Col(<<"i","s","_","g","l","o","b","a","l">>, <<"I","s"," ","G","l","o","b","a","l">>),
       Col(<<"s","t","y","l","e","_","n","a","m","e","s">>, <<"S","t","y","l","e"," ","N","a","m","e","(","s",")">>),
       Col(<<"k","e","y","w","o","r","d","_","l","i","s","t">>, <<"K","e","y","w","o","r","d","s">>) >>

PDF_COLUMN == Col(<<"p","d","f","_","v","2">>, <<"P","D","F"," ","V","2">>)

\* A PatternFill is named by its fgColor.
HEADER_FILL == "1F4E79"
ROW_FILL_ODD == "D6E4F0"
ROW_FILL_EVEN == "FFFFFF"
ROW_FILL_GLOBAL == "FFD700"

ROW_HIGHLIGHTS ==
    << [fill |-> ROW_FILL_GLOBAL, hex |-> "FFD700", label |-> "Global layer"],
       [fill |-> ROW_FILL_ODD, hex |-> "D6E4F0", label |-> "Odd data row"],
       [fill |-> ROW_FILL_EVEN, hex |-> "FFFFFF", label |-> "Even data row"] >>

\* list.insert(i, x), i a 0-based position within the list.
Insert(q, i, x) == SubSeq(q, 1, i) \o <<x>> \o SubSeq(q, i + 1, Len(q))

\* Line 27: the 0-based position of the first column keyed "is_global", or
\* len(cols) - 1 when there is none.
IsGlobalIndex(cols) ==
    IF \E i \in 1..Len(cols) : cols[i].key = <<"i","s","_","g","l","o","b","a","l">>
    THEN (CHOOSE i \in 1..Len(cols) :
              cols[i].key = <<"i","s","_","g","l","o","b","a","l">> /\ \A j \in 1..(i - 1) : cols[j].key # <<"i","s","_","g","l","o","b","a","l">>) - 1
    ELSE Len(cols) - 1

\* active_columns working on BASE_COLUMNS itself instead of a copy.
active_columns_alias(base) ==
    LET cols == Insert(base, IsGlobalIndex(base) + 1, PDF_COLUMN)
    IN [ret |-> cols, base |-> cols]

\* Lines 24-29, given the module-level list: ret is the list returned, base
\* the module-level list after the call (line 26 copies it, so the insert of
\* line 28 leaves it alone).
active_columns(base) ==
    LET cols == Insert(base, IsGlobalIndex(base) + 1, PDF_COLUMN)
    IN [ret |-> cols, base |-> base]

\* The two alternating fills taken the other way round.
RowFillSwapped(row_data, row_idx) ==
    IF Truthy(Get(row_data, <<"_","g","l","o","b","a","l">>, JNull)) THEN ROW_FILL_GLOBAL
    ELSE IF (row_idx - 1) % 2 = 0 THEN ROW_FILL_ODD
    ELSE ROW_FILL_EVEN

\* Lines 175-180: the fill of the data row written to sheet row row_idx.
RowFill(row_data, row_idx) ==
    IF Truthy(Get(row_data, <<"_","g","l","o","b","a","l">>, JNull)) THEN ROW_FILL_GLOBAL
    ELSE IF row_idx % 2 = 0 THEN ROW_FILL_ODD
    ELSE ROW_FILL_EVEN

\* A cell value read with no default.
CellValueNoDefault(row_data, key) == Get(row_data, key, JNull)

\* Line 182: row_data.get(key, "")
CellValue(row_data, key) == Get(row_data, key, EMPTY)

Max(a, b) == IF a >= b THEN a ELSE b
Min(a, b) == IF a <= b THEN a ELSE b

\* Lines 188-191: max_len over the label and the cells of the column.
RECURSIVE MaxLen(_, _)
MaxLen(max_len, values) ==
    IF values = <<>> THEN max_len
    ELSE MaxLen(Max(max_len, Len(Str(Or(Head(values), EMPTY)))), Tail(values))

\* Lines 188-192: the width of a column.
ColumnWidth(label, values) == Min(MaxLen(Len(label), values) + 4, 60)

\* Lines 166-194.  A cell is its value and its fill; ws.cell(...).value reads
\* back the value that was written.
write_sheet(rws, cols) ==
    LET cells ==
          [r \in 1..(Len(rws) + 1) |->
             [c \in 1..Len(cols) |->
                IF r = 1
                THEN [value |-> JStr(cols[c].label), fill |-> HEADER_FILL]
                ELSE [value |-> CellValue(rws[r - 1], cols[c].key),
                      fill |-> RowFill(rws[r - 1], r)]]]
    IN [cells |-> cells,
        width |-> [c \in 1..Len(cols) |->
                     ColumnWidth(cols[c].label,
                                 [i \in 1..Len(rws) |-> cells[i + 1][c].value])],
        freeze_panes |-> "A2"]

(***************************************************************************)
(* The sheets that are written                                             *)
(***************************************************************************)

MaxRows == 3    \* rows of one sheet
MaxCalls == 2   \* calls of pdf.active_columns() in one run

\* A schema of a caller other than main, with short labels and a key no row has.
CUSTOM_COLUMNS ==
    << Col(<<"q","u","e","r","y","a","b","l","e">>, <<"Q">>), Col(<<"n","a","m","e">>, <<"N","a","m","e">>), Col(<<"c","o","m","m","e","n","t">>, <<"N","o","t","e">>) >>

Repeat(c, n) == [i \in 1..n |-> c]

SampleLayers ==
    << DictOf(LAYER_KEYS,
              << JStr(<<"f","i","r","e","s">>), JInt(1), JStr(<<" "," ","F","i","r","e"," ","r","i","s","k"," ">>),
                 JList(<<JStr(<<"h","a","z","a","r","d","l","o","o","k","u","p">>), JStr(<<"p","d","f",":","h","a","z","a","r","d","l","o","o","k","u","p",":","L","o","c","a","l">>)>>),
                 JList(<<JStr(<<"E","P","S","G",":","4","3","2","6">>), JStr(<<"C","R","S",":","8","4">>)>>),
                 BboxDict(JInt(-180), JInt(180), JInt(90), JInt(-90)),
                 JList(<<NameDict(JStr(<<"d","e","f","a","u","l","t">>))>>) >>),
       DictOf(LAYER_KEYS,
              << JStr(<<"f","l","o","o","d","s">>), JBool(FALSE), Absent,
                 JList(<<JStr(<<"h","a","z","a","r","d","l","o","o","k","u","p">>)>>), Absent,
                 BboxDict(JInt(-10), JInt(10), JInt(10), JInt(-10)), Absent >>),
       DictOf(LAYER_KEYS,
              << JStr(Repeat("n", 50)), JInt(0), JStr(Repeat("a", 70)),
                 JList(<<JStr(<<"H","a","z","a","r","d","L","o","o","k","u","p">>)>>), Absent, Absent, Absent >>) >>

\* Rows as extract_row returns them, and two rows with fields missing.
SampleRows ==
    { extract_row(SampleLayers[i]).ret : i \in 1..Len(SampleLayers) }
        \cup { JDict(<<<<"n","a","m","e">>>>, <<JStr(<<"b","a","r","e">>)>>),
               JDict(<<<<"n","a","m","e">>, <<"q","u","e","r","y","a","b","l","e">>, <<"_","g","l","o","b","a","l">>>>, <<JNull, JInt(0), JBool(TRUE)>>) }

RECURSIVE RowListsOfLen(_)
RowListsOfLen(n) ==
    IF n = 0 THEN {<<>>}
    ELSE { Append(q, r) : q \in RowListsOfLen(n - 1), r \in SampleRows }

RowListsUpTo(n) == UNION { RowListsOfLen(k) : k \in 0..n }

InitSheet ==
    /\ mode \in {"base", "pdf", "custom"}
    /\ base_columns = BASE_COLUMNS
    /\ columns = <<>>
    /\ ac_result = <<>>
    /\ ac_calls = 0
    /\ rows \in RowListsUpTo(MaxRows)
    /\ sheet = EmptySheet
    /\ sheet_pc = "start"
    /\ BboxIdle
    /\ ScanIdle
    /\ RowIdle
    /\ SortIdle
    /\ RestIdle

\* main, line 115: columns = pdf.active_columns() if usage_pdf else BASE_COLUMNS.
SelectColumns ==
    /\ sheet_pc = "start"
    /\ mode \in {"base", "pdf"}
    /\ IF mode = "pdf"
       THEN LET out == active_columns(base_columns)
            IN /\ columns' = out.ret
               /\ base_columns' = out.base
               /\ ac_result' = out.ret
               /\ ac_calls' = ac_calls + 1
       ELSE /\ columns' = base_columns
            /\ UNCHANGED <<base_columns, ac_result, ac_calls>>
    /\ sheet_pc' = "ready"
    /\ UNCHANGED <<mode, rows, sheet, bboxVars, scanVars, rowVars, sortVars, restVars>>

\* A caller of write_sheet that brings its own schema.
SelectCustomColumns ==
    /\ sheet_pc = "start"
    /\ mode = "custom"
    /\ columns' = CUSTOM_COLUMNS
    /\ sheet_pc' = "ready"
    /\ UNCHANGED <<mode, base_columns, ac_result, ac_calls, rows, sheet,
                   bboxVars, scanVars, rowVars, sortVars, restVars>>

\* One more call of pdf.active_columns(), at any time once the module is loaded.
ActiveColumnsCall ==
    /\ mode = "pdf"
    /\ sheet_pc # "start"
    /\ ac_calls < MaxCalls
    /\ LET out == active_columns(base_columns)
       IN /\ ac_result' = out.ret
          /\ base_columns' = out.base
    /\ ac_calls' = ac_calls + 1
    /\ UNCHANGED <<mode, columns, rows, sheet, sheet_pc,
                   bboxVars, scanVars, rowVars, sortVars, restVars>>

\* main, line 245: write_sheet(ws, rows, columns) on a fresh worksheet.
WriteSheet ==
    /\ sheet_pc = "ready"
    /\ sheet' = write_sheet(rows, columns)
    /\ sheet_pc' = "written"
    /\ UNCHANGED <<mode, base_columns, columns, ac_result, ac_calls, rows,
                   bboxVars, scanVars, rowVars, sortVars, restVars>>

NextSheet == SelectColumns \/ SelectCustomColumns \/ ActiveColumnsCall \/ WriteSheet

SpecSheet == InitSheet /\ [][NextSheet]_vars

\* The fill the Legend sheet shows beside a label (ROW_HIGHLIGHTS).
C7_LegendFill(label) == (CHOOSE h \in SeqRange(ROW_HIGHLIGHTS) : h.label = label).fill

C7_IsGlobalRow(row) ==
    \E j \in 1..Len(row.keys) : row.keys[j] = <<"_","g","l","o","b","a","l">> /\ row.items[j] = JBool(TRUE)

\* C7: in a written sheet every cell of the i-th data row has one fill: the
\* global highlight when the row's _global flag is true, whatever i is;
\* otherwise the fill the legend labels "Odd data row" when i is odd and the
\* fill it labels "Even data row" when i is even.
C7_RowFillPrecedence ==
    sheet_pc = "written" =>
        \A i \in 1..Len(rows) : \A c \in 1..Len(columns) :
            sheet.cells[i + 1][c].fill =
                IF C7_IsGlobalRow(rows[i]) THEN C7_LegendFill("Global layer")
                ELSE IF i % 2 = 1 THEN C7_LegendFill("Odd data row")
                ELSE C7_LegendFill("Even data row")

\* C7's case: a sheet was written with a global row in an odd position and
\* non-global rows in an odd and in an even position.
C7_Witness ==
    /\ sheet_pc = "written"
    /\ Len(rows) = 3
    /\ Len(columns) > 0
    /\ C7_IsGlobalRow(rows[1])
    /\ ~C7_IsGlobalRow(rows[2])
    /\ ~C7_IsGlobalRow(rows[3])
    /\ sheet.cells[2][1].fill = "FFD700"
    /\ sheet.cells[3][1].fill = "FFFFFF"
    /\ sheet.cells[4][1].fill = "D6E4F0"

\* The field of a row under a key, the empty string when the row has none.
C9_Field(row, key) ==
    IF \E j \in 1..Len(row.keys) : row.keys[j] = key
    THEN row.items[CHOOSE j \in 1..Len(row.keys) : row.keys[j] = key]
    ELSE JStr(<<>>)

\* The length a cell counts with: that of its string form, a cell with no
\* value (None) or an empty one counting as the empty string.
C8_CellLen(v) == IF v.t = "null" THEN 0 ELSE Len(Str(v))

C8_Longest(c) ==
    CHOOSE m \in {Len(columns[c].label)}
                    \cup { C8_CellLen(C9_Field(rows[i], columns[c].key)) : i \in 1..Len(rows) } :
        /\ m >= Len(columns[c].label)
        /\ \A i \in 1..Len(rows) : m >= C8_CellLen(C9_Field(rows[i], columns[c].key))

\* C8: in a written sheet the width of every column is
\* min(max(len(label), len(str(cell)) of every data cell) + 4, 60), where a
\* present value such as 0 or False counts with the length of its string form.
C8_ColumnWidth ==
    sheet_pc = "written" =>
        \A c \in 1..Len(columns) :
            sheet.width[c] = (IF C8_Longest(c) + 4 <= 60 THEN C8_Longest(c) + 4 ELSE 60)

\* C9: a written sheet has one row more than the input and as many columns as
\* the schema; row 1 holds the labels; row i+1 holds, column by column, the
\* field of the i-th row under the column's key ("" when the row has none);
\* main's schemas have no column for _global, and the base schema none for
\* pdf_v2; with no rows the sheet is the header row.
C9_RoundTrip ==
    sheet_pc = "written" =>
        /\ Len(sheet.cells) = Len(rows) + 1
        /\ \A r \in 1..Len(sheet.cells) : Len(sheet.cells[r]) = Len(columns)
        /\ \A c \in 1..Len(columns) :
              /\ sheet.cells[1][c].value = JStr(columns[c].label)
              /\ \A i \in 1..Len(rows) :
                    sheet.cells[i + 1][c].value = C9_Field(rows[i], columns[c].key)
              /\ columns[c].key # <<"_","g","l","o","b","a","l">>
              /\ mode = "base" => columns[c].key # <<"p","d","f","_","v","2">>
        /\ mode = "base" => [c \in 1..Len(columns) |-> sheet.cells[1][c].value.s]
                               = [c \in 1..Len(BASE_COLUMNS) |-> BASE_COLUMNS[c].label]

\* C9's case: under the base schema a sheet was written from a row that has a
\* tag and a _global flag, which the schema leaves out, and a row that lacks
\* fields of the schema.
C9_Witness ==
    /\ sheet_pc = "written"
    /\ mode = "base"
    /\ Len(rows) >= 2
    /\ C9_Field(rows[1], <<"p","d","f","_","v","2">>) = JStr(<<"l","o","c","a","l">>)
    /\ C7_IsGlobalRow(rows[1])
    /\ ~HasKey(rows[2], <<"t","i","t","l","e">>)
    /\ sheet.cells[3][2].value = JStr(<<>>)

\* C10: whenever pdf.active_columns() has been called, however often, what it
\* returned last is BASE_COLUMNS with the one column (pdf_v2, "PDF V2") right
\* after the is_global column, the others unchanged and in order; and the
\* module-level BASE_COLUMNS is what it was.
C10_ActiveColumns ==
    /\ sheet_pc # "idle" => base_columns = BASE_COLUMNS
    /\ ac_calls > 0 =>
          /\ Len(ac_result) = Len(BASE_COLUMNS) + 1
          /\ \E i \in 1..Len(BASE_COLUMNS) :
                /\ BASE_COLUMNS[i].key = <<"i","s","_","g","l","o","b","a","l">>
                /\ ac_result[i + 1] = [key |-> <<"p","d","f","_","v","2">>, label |-> <<"P","D","F"," ","V","2">>]
                /\ \A j \in 1..i : ac_result[j] = BASE_COLUMNS[j]
                /\ \A j \in (i + 1)..Len(BASE_COLUMNS) : ac_result[j + 1] = BASE_COLUMNS[j]

\* C10's case: pdf.active_columns() has been called more than once.
C10_Witness ==
    /\ ac_calls >= 2
    /\ ac_result[11] = PDF_COLUMN
    /\ columns = ac_result

(***************************************************************************)
(* core.py: the Legend sheet (write_legend_sheet)                          *)
(***************************************************************************)

\* A (name, description) tuple.  The name is compared (line 226); the
\* description is only stored, and is kept as one string, "-", ">=" and
\* "deg" standing for the minus, at-least and degree signs of the source.
Desc(name, description) == [name |-> name, description |-> description]

BASE_COLUMN_DESCRIPTIONS ==
    << Desc(<<"L","a","y","e","r"," ","N","a","m","e">>, "The WMS layer identifier (e.g. GRAPHRASTER:fires_final)."),
       Desc(<<"T","i","t","l","e">>, "Human-readable display name of the layer."),
       Desc(<<"A","b","s","t","r","a","c","t">>, "Brief description of the layer's content or purpose."),
       Desc(<<"Q","u","e","r","y","a","b","l","e">>, "1 = layer supports GetFeatureInfo requests; 0 = display-only."),
       Desc(<<"C","R","S">>, "Comma-separated list of supported coordinate reference systems."),
       Desc(<<"W","e","s","t"," ","B","o","u","n","d"," ","L","o","n">>, "Western edge of the bounding box in decimal degrees (-180 to 180)."),
       Desc(<<"E","a","s","t"," ","B","o","u","n","d"," ","L","o","n">>, "Eastern edge of the bounding box in decimal degrees (-180 to 180)."),
       Desc(<<"N","o","r","t","h"," ","B","o","u","n","d"," ","L","a","t">>, "Northern edge of the bounding box in decimal degrees (-90 to 90)."),
       Desc(<<"S","o","u","t","h"," ","B","o","u","n","d"," ","L","a","t">>, "Southern edge of the bounding box in decimal degrees (-90 to 90)."),
       Desc(<<"I","s"," ","G","l","o","b","a","l">>, "'Yes' when the layer's bbox spans >= 340 deg longitude AND >= 120 deg latitude, indicating worldwide coverage. 'No' for regional or country-level layers."),
       Desc(<<"S","t","y","l","e"," ","N","a","m","e","(","s",")">>, "Comma-separated WMS style names available for this layer."),
       Desc(<<"K","e","y","w","o","r","d","s">>, "Full keyword_list from the capabilities document, comma-separated.") >>

PDF_COLUMN_DESCRIPTION ==
    Desc(<<"P","D","F"," ","V","2">>, "Suffix extracted from the 'pdf:hazardlookup:<keyword>' entry in the keyword_list (e.g. 'local', 'global:risk', 'global:additional'). Shows 'not attached to PDF V2' when no such keyword is present.")

\* Line 226: whether next(...) finds an entry named "Is Global".
HasIsGlobalEntry(col_descs) == \E i \in 1..Len(col_descs) : col_descs[i].name = <<"I","s"," ","G","l","o","b","a","l">>

\* Line 226: the 0-based position of the first entry named "Is Global".
is_global_idx(col_descs) ==
    (CHOOSE i \in 1..Len(col_descs) :
         /\ col_descs[i].name = <<"I","s"," ","G","l","o","b","a","l">>
         /\ \A j \in 1..(i - 1) : col_descs[j].name # <<"I","s"," ","G","l","o","b","a","l">>) - 1

\* The extra entry always put at the end.
ColDescsAtEnd(base, extra_col_desc) ==
    IF extra_col_desc # None THEN Append(base, extra_col_desc) ELSE base

\* Lines 224-230: the entries of the description table.
ColDescs(base, extra_col_desc) ==
    IF extra_col_desc # None
    THEN IF HasIsGlobalEntry(base)
         THEN Insert(base, is_global_idx(base) + 1, extra_col_desc)
         ELSE Append(base, extra_col_desc)
    ELSE base

\* Lines 206-244: the Legend worksheet.  The colour key takes rows 3.. (one
\* per entry of ROW_HIGHLIGHTS), the description table starts below its
\* header row.
LegendSheet(col_descs) ==
    [ title |-> <<"L","e","g","e","n","d">>,
      key |-> ROW_HIGHLIGHTS,
      section_row |-> Len(ROW_HIGHLIGHTS) + 5,
      first_desc_row |-> Len(ROW_HIGHLIGHTS) + 7,
      col_descs |-> col_descs ]

\* write_legend_sheet splicing into BASE_COLUMN_DESCRIPTIONS itself instead of
\* a copy.
write_legend_sheet_alias(book, base, extra_col_desc) ==
    LET col_descs == ColDescs(base, extra_col_desc)
    IN [ wb |-> Append(book, LegendSheet(col_descs)),
         base |-> col_descs,
         result |-> Return(TRUE) ]

\* Lines 199-244, given the workbook (book) and the module-level list: wb is the
\* workbook after the call, base the module-level list after the call (line
\* 224 copies it) and result the outcome (the function returns None).
write_legend_sheet(book, base, extra_col_desc) ==
    LET col_descs == ColDescs(base, extra_col_desc)
    IN [ wb |-> Append(book, LegendSheet(col_descs)),
         base |-> base,
         result |-> Return(TRUE) ]

(***************************************************************************)
(* Legends written one after the other                                     *)
(***************************************************************************)

MaxLegends == 3   \* calls of write_legend_sheet in one run

\* The list without its entries of one name.
Without(col_descs, name) == SelectSeq(col_descs, LAMBDA d : d.name # name)

\* The module-level list, and the list of a build that has no "Is Global" entry.
DescriptionLists ==
    { BASE_COLUMN_DESCRIPTIONS, Without(BASE_COLUMN_DESCRIPTIONS, <<"I","s"," ","G","l","o","b","a","l">>) }

\* extra_col_desc: None (base mode), the PDF entry (PDF mode), and entries of
\* other callers, one of them named like the anchor.
ExtraChoices ==
    { None,
      PDF_COLUMN_DESCRIPTION,
      Desc(<<"N","o","t","e","s">>, "Free text."),
      Desc(<<"I","s"," ","G","l","o","b","a","l">>, "A second entry of that name.") }

InitLegend ==
    /\ base_column_descriptions \in DescriptionLists
    /\ legend_wb = <<>>
    /\ legend_extra = None
    /\ legend_result = Pending(FALSE)
    /\ BboxIdle
    /\ ScanIdle
    /\ RowIdle
    /\ SortIdle
    /\ SheetIdle
    /\ MainIdle
    /\ FetchIdle

\* One call write_legend_sheet(wb, extra_col_desc).
WriteLegendSheet ==
    /\ Len(legend_wb) < MaxLegends
    /\ \E extra \in ExtraChoices :
           LET out == write_legend_sheet(legend_wb, base_column_descriptions, extra)
           IN /\ legend_wb' = out.wb
              /\ base_column_descriptions' = out.base
              /\ legend_result' = out.result
              /\ legend_extra' = extra
    /\ UNCHANGED <<bboxVars, scanVars, rowVars, sortVars, sheetVars, mainVars, fetchVars>>

NextLegend == WriteLegendSheet

SpecLegend == InitLegend /\ [][NextLegend]_vars

\* The legend the last call wrote.
C11_Last == legend_wb[Len(legend_wb)]

\* The position of the anchor: the first entry named "Is Global".
C11_Anchor(base) ==
    CHOOSE i \in 1..Len(base) :
        base[i].name = <<"I","s"," ","G","l","o","b","a","l">> /\ \A j \in 1..(i - 1) : base[j].name # <<"I","s"," ","G","l","o","b","a","l">>

\* C11: every call of write_legend_sheet returns; without an extra entry the
\* table is exactly the base list; with one, the table is the base list in
\* its order with the extra entry right after the "Is Global" entry, or at
\* the end when there is no such entry; and the module-level list is never
\* changed, so that a legend built without the extra entry after one built
\* with it does not contain it.
C11_LegendDescriptions ==
    /\ base_column_descriptions \in DescriptionLists
    /\ \A d \in ExtraChoices \ {None} :
           \A i \in 1..Len(base_column_descriptions) : base_column_descriptions[i] # d
    /\ legend_wb # <<>> =>
         LET base == base_column_descriptions
             table == C11_Last.col_descs
         IN /\ legend_result.status = "returned"
            /\ legend_extra = None => table = base
            /\ (legend_extra # None /\ \E i \in 1..Len(base) : base[i].name = <<"I","s"," ","G","l","o","b","a","l">>) =>
                 LET a == C11_Anchor(base)
                 IN /\ Len(table) = Len(base) + 1
                    /\ table[a + 1] = legend_extra
                    /\ \A i \in 1..a : table[i] = base[i]
                    /\ \A i \in (a + 1)..Len(base) : table[i + 1] = base[i]
            /\ (legend_extra # None /\ \A i \in 1..Len(base) : base[i].name # <<"I","s"," ","G","l","o","b","a","l">>) =>
                 table = base \o <<legend_extra>>

\* A legend with the PDF entry right after "Is Global" was written, and then
\* one without an extra entry, which is the base list again.
C11_Witness ==
    /\ Len(legend_wb) = 2
    /\ base_column_descriptions = BASE_COLUMN_DESCRIPTIONS
    /\ legend_wb[1].col_descs[11] = PDF_COLUMN_DESCRIPTION
    /\ legend_wb[1].col_descs[10].name = <<"I","s"," ","G","l","o","b","a","l">>
    /\ legend_extra = None
    /\ legend_wb[2].col_descs = BASE_COLUMN_DESCRIPTIONS

(***************************************************************************)
(* __main__.py: the harvest loop of main, and what it calls                *)
(***************************************************************************)

\* The least element of a non-empty set of numbers.
Least(S) == CHOOSE i \in S : \A j \in S : i <= j

\* s up to (not including) its first character in stops; s itself when it
\* has none (str.partition, _splitnetloc).
Before(s, stops) ==
    LET hits == { i \in 1..Len(s) : s[i] \in stops }
    IN IF hits = {} THEN s ELSE SubSeq(s, 1, Least(hits) - 1)

\* s after its last character c; s itself when it has none (str.rpartition).
AfterLast(s, c) ==
    LET hits == { i \in 1..Len(s) : s[i] = c }
    IN IF hits = {} THEN s
       ELSE SubSeq(s, (CHOOSE i \in hits : \A j \in hits : j <= i) + 1, Len(s))

IsLetter(c) == (Ord(c) >= 65 /\ Ord(c) <= 90) \/ (Ord(c) >= 97 /\ Ord(c) <= 122)

\* urllib.parse.urlparse(url).hostname (the standard library): a scheme is
\* split off at the first ":" when what precedes it starts with a letter and
\* is made of letters, digits, "+", "-" and "."; the host is what follows
\* "//" up to the next "/", "?" or "#", without user info and port,
\* lower-cased; None (here the empty string) when there is none.  Bracketed
\* IPv6 hosts are left out.
urlparse_hostname(url) ==
    LET colons == { i \in 1..Len(url) : url[i] = ":" }
        i == IF colons = {} THEN 0 ELSE Least(colons)
        has_scheme ==
            /\ i > 1
            /\ IsLetter(url[1])
            /\ \A j \in 1..(i - 1) :
                   IsLetter(url[j]) \/ IsDigit(url[j]) \/ url[j] \in {"+", "-", "."}
        rest == IF has_scheme THEN SubSeq(url, i + 1, Len(url)) ELSE url
        netloc == IF StartsWith(rest, <<"/","/">>)
                  THEN Before(SubSeq(rest, 3, Len(rest)), {"/", "?", "#"})
                  ELSE <<>>
        hostinfo == AfterLast(netloc, "@")
    IN Lower(Before(hostinfo, {":"}))

\* fetcher.url_slug: the hostname of the stripped URL, or "".
url_slug(url) == urlparse_hostname(Strip(url))

\* dict.get on a dict kept as (key, value) pairs.
Lookup(pairs, key, default) ==
    IF \E i \in 1..Len(pairs) : pairs[i].key = key
    THEN (CHOOSE p \in SeqRange(pairs) : p.key = key).value
    ELSE default

\* An env_dict, reduced to the two keys main reads; a missing key is "".
EnvDict(base_url, login_url) == [BASE_URL |-> base_url, LOGIN_URL |-> login_url]

\* Lines 134-140: the first entry of a group with a non-empty slug gives the
\* group its slug.
RECURSIVE BuildGroupSlugs(_, _)
BuildGroupSlugs(entries, slugs) ==
    IF entries = <<>> THEN slugs
    ELSE LET entry == Head(entries)
             raw == IF entry.env_dict.BASE_URL # <<>>
                    THEN entry.env_dict.BASE_URL
                    ELSE entry.env_dict.LOGIN_URL
             slug == url_slug(raw)
         IN IF (\A i \in 1..Len(slugs) : slugs[i].key # entry.group) /\ slug # <<>>
            THEN BuildGroupSlugs(Tail(entries),
                                 Append(slugs, [key |-> entry.group, value |-> slug]))
            ELSE BuildGroupSlugs(Tail(entries), slugs)

\* core.find_hazard_layers(obj, results), lines 89-101, run to its end: the
\* paths of the layers appended to results.
RECURSIVE RunLoop(_, _, _)
RunLoop(obj, st, res) ==
    IF st = <<>> THEN res
    ELSE LET out == LoopBody(obj, st, res)
         IN RunLoop(obj, out.stack, out.results)

find_hazard_layers(obj, res) == RunLoop(obj, << <<>> >>, res)

\* pdf.collect_pdf_data, lines 46-59: the tags in the order of their first
\* row, and the number of rows of each tag (counts, in the same order).
RECURSIVE collect_pdf_data(_)
collect_pdf_data(rws) ==
    IF rws = <<>> THEN [all_types |-> <<>>, counts |-> <<>>]
    ELSE LET before == collect_pdf_data(SubSeq(rws, 1, Len(rws) - 1))
             tag == Str(Get(rws[Len(rws)], <<"p","d","f","_","v","2">>, JStr(NO_PDF_LABEL)))
         IN IF \E i \in 1..Len(before.all_types) : before.all_types[i] = tag
            THEN [all_types |-> before.all_types,
                  counts |-> [i \in 1..Len(before.counts) |->
                                IF before.all_types[i] = tag
                                THEN before.counts[i] + 1
                                ELSE before.counts[i]]]
            ELSE [all_types |-> Append(before.all_types, tag),
                  counts |-> Append(before.counts, 1)]

\* Lines 252-254: the tags of a file not yet in all_pdf_types are appended.
RECURSIVE MergeTypes(_, _)
MergeTypes(types, file_pdf_types) ==
    IF file_pdf_types = <<>> THEN types
    ELSE IF Head(file_pdf_types) \in SeqRange(types)
    THEN MergeTypes(types, Tail(file_pdf_types))
    ELSE MergeTypes(Append(types, Head(file_pdf_types)), Tail(file_pdf_types))

\* wb.create_sheet(title=...), lines 244-245: the new worksheet, once written,
\* is the last sheet of the workbook.
create_sheet(book, ws) == Append(book, ws)

\* Line 108: the time the run started, the same for every group of the run.
timestamp == <<"2","0","2","6","1","1","0","2","_","1","0","1","5","0","0">>

OUTPUT_DIR == <<"o","u","t","p","u","t">>

\* Line 268: name_slug.
NameSlug(slugs, group_name) ==
    Lookup(slugs, group_name, IF group_name # <<>> THEN group_name ELSE <<"b","a","s","e">>)

\* Lines 268-272: out_file.
OutFile(slugs, group_name, usage_pdf) ==
    LET name_slug == NameSlug(slugs, group_name)
        mode_suffix == IF usage_pdf THEN <<"_","p","d","f">> ELSE <<>>
        out_dir == IF name_slug # <<>> THEN OUTPUT_DIR \o <<"/">> \o name_slug ELSE OUTPUT_DIR
    IN out_dir \o <<"/">> \o timestamp \o <<"_">> \o name_slug \o mode_suffix \o <<"_","l","a","y","e","r","s",".","x","l","s","x">>

\* wb.save(out_file): the file at that path now holds the workbook.
Save(files, path, book) ==
    IF \E i \in 1..Len(files) : files[i].path = path
    THEN [i \in 1..Len(files) |->
            IF files[i].path = path THEN [path |-> path, sheets |-> book] ELSE files[i]]
    ELSE Append(files, [path |-> path, sheets |-> book])

(***************************************************************************)
(* The runs of main: the groups found under input/ and the env files       *)
(***************************************************************************)

MaxGroups == 2   \* groups of one run
MaxFiles == 2    \* documents of one group

\* The files under input/, by stem: a capabilities document with two hazard
\* layers (one global, one not), one without layers, and a file that is not
\* JSON; in the order sorted() gives.
FilePool ==
    << [stem |-> <<"b","r","o","k","e","n">>, valid |-> FALSE, data |-> JNull],
       [stem |-> <<"e","m","p","t","y">>, valid |-> TRUE,
        data |-> JDict(<<<<"l","a","y","e","r","s">>>>, <<JList(<<>>)>>)],
       [stem |-> <<"f","i","r","e","s">>, valid |-> TRUE,
        data |-> JDict(<<<<"l","a","y","e","r","s">>>>, <<JList(<<SampleLayers[1], SampleLayers[2]>>)>>)] >>

\* A json_path is kept as the stem of the file; open() gives its content.
FileStems == [i \in 1..Len(FilePool) |-> FilePool[i].stem]
FileContent(stem) == CHOOSE file \in SeqRange(FilePool) : file.stem = stem

\* The root group "" comes first, then the sub-directories in sorted order
\* (collect_groups, lines 259-265).
GroupNames == << <<>>, <<"a","c","m","e">>, <<"b","a","s","e">> >>

\* The elements of q at the positions S, in the order of q.
Pick(q, S) ==
    [k \in 1..Cardinality(S) |->
        q[CHOOSE i \in S : Cardinality({ j \in S : j < i }) = k - 1]]

\* The non-empty selections of at most n elements of q.
Selections(q, n) ==
    { Pick(q, S) : S \in { T \in SUBSET (1..Len(q)) : T # {} /\ Cardinality(T) <= n } }

\* groups: every group has at least one file (collect_groups, lines 260, 264).
GroupsUpTo(g, f) ==
    UNION { { [i \in 1..Len(names) |-> [name |-> names[i], json_files |-> files[i]]] :
                files \in [1..Len(names) -> Selections(FileStems, f)] } :
            names \in Selections(GroupNames, g) }

\* The env files of one deployment, which all name the host
\* dev.quarticle.ro: one by its LOGIN_URL only, one by a BASE_URL written
\* with blanks, capitals and a port.
EnvFiles ==
    << EnvDict(<<>>, <<"h","t","t","p","s",":","/","/","d","e","v",".","q","u","a","r","t","i","c","l","e",".","r","o","/","g","r","a","p","h","/","a","p","i","/","v","1","/","l","o","g","i","n">>),
       EnvDict(<<" ","h","t","t","p","s",":","/","/","D","e","v",".","Q","u","a","r","t","i","c","l","e",".","r","o",":","8","4","4","3","/","g","r","a","p","h"," ">>, <<"h","t","t","p",":","/","/","l","o","c","a","l","h","o","s","t",":","4","2","0","0","/","g","r","a","p","h","/","a","p","i","/","v","1","/","l","o","g","i","n">>) >>

\* all_env_entries for the groups gs: one entry for each group that has an
\* env file (with is the set of their positions), in the order of the
\* groups (scan_envs sorts by group).
EnvEntries(gs, with) ==
    [k \in 1..Cardinality(with) |->
        LET i == CHOOSE i \in with : Cardinality({ j \in with : j < i }) = k - 1
        IN [group |-> gs[i].name, env_name |-> <<"d","e","v">>, env_dict |-> EnvFiles[(i % 2) + 1]]]

InitMain ==
    /\ mode \in {"base", "pdf"}
    /\ base_columns = BASE_COLUMNS
    /\ columns = <<>>
    /\ ac_result = <<>>
    /\ ac_calls = 0
    /\ rows = <<>>
    /\ sheet = EmptySheet
    /\ sheet_pc = "start"
    /\ base_column_descriptions = BASE_COLUMN_DESCRIPTIONS
    /\ legend_wb = <<>>
    /\ legend_extra = None
    /\ legend_result = Pending(FALSE)
    /\ groups \in GroupsUpTo(MaxGroups, MaxFiles)
    /\ \E with \in SUBSET (1..Len(groups)) :
           all_env_entries = EnvEntries(groups, with)
    /\ group_slugs = <<>>
    /\ group_idx = 0
    /\ file_idx = 0
    /\ main_pc = "slugs"
    /\ wb = <<>>
    /\ data = JNull
    /\ layers = <<>>
    /\ summary_rows = <<>>
    /\ all_pdf_types = <<>>
    /\ group_results = <<>>
    /\ disk = <<>>
    /\ log = <<>>
    /\ BboxIdle
    /\ ScanIdle
    /\ RowIdle
    /\ SortIdle
    /\ FetchIdle

Event(op, g, f) == [op |-> op, group |-> g, file |-> f]

\* The file the loop of line 222 is at.
json_path == groups[group_idx].json_files[file_idx + 1]

\* The loop of line 222 left after the first file.
AfterFileOnce(done, json_files) == "finalize"

\* Line 222 after a file: the next file of the group, or the end of the loop.
AfterFile(done, json_files) == IF done < Len(json_files) THEN "parse" ELSE "finalize"

\* main, lines 133-140, once the columns are chosen (line 115).
GroupSlugs ==
    /\ main_pc = "slugs"
    /\ sheet_pc = "ready"
    /\ group_slugs' = BuildGroupSlugs(all_env_entries, <<>>)
    /\ main_pc' = "loop"
    /\ UNCHANGED <<all_env_entries, groups, group_idx, file_idx, wb, data, layers,
                   summary_rows, all_pdf_types, group_results, disk, log,
                   bboxVars, scanVars, rowVars, sortVars, sheetVars, legendVars, fetchVars>>

\* Lines 212-220: the next group, with a workbook of its own.
StartGroup ==
    /\ main_pc = "loop"
    /\ group_idx < Len(groups)
    /\ group_idx' = group_idx + 1
    /\ wb' = <<>>
    /\ summary_rows' = <<>>
    /\ all_pdf_types' = <<>>
    /\ file_idx' = 0
    /\ main_pc' = AfterFile(0, groups[group_idx + 1].json_files)
    /\ UNCHANGED <<all_env_entries, group_slugs, groups, data, layers, group_results,
                   disk, log, bboxVars, scanVars, rowVars, sortVars, sheetVars, legendVars, fetchVars>>

\* Lines 223-231, step 1: json.load, which raises on a file that is not JSON.
Parse ==
    /\ main_pc = "parse"
    /\ log' = Append(log, Event("parse", group_idx, file_idx + 1))
    /\ IF FileContent(json_path).valid
       THEN data' = FileContent(json_path).data /\ main_pc' = "extract"
       ELSE data' = data /\ main_pc' = "crashed"
    /\ UNCHANGED <<all_env_entries, group_slugs, groups, group_idx, file_idx, wb, layers,
                   summary_rows, all_pdf_types, group_results, disk,
                   bboxVars, scanVars, rowVars, sortVars, sheetVars, legendVars, fetchVars>>

\* Lines 234-240, step 2: the layers of the document and their rows; an
\* exception of extract_row leaves main.
Extract ==
    /\ main_pc = "extract"
    /\ log' = Append(log, Event("extract", group_idx, file_idx + 1))
    /\ LET found == find_hazard_layers(data, <<>>)
           outs == [i \in 1..Len(found) |-> extract_row(At(data, found[i]))]
       IN /\ layers' = [i \in 1..Len(found) |-> At(data, found[i])]
          /\ IF \E i \in 1..Len(outs) : outs[i].status = "raised"
             THEN rows' = rows /\ main_pc' = "crashed"
             ELSE rows' = [i \in 1..Len(outs) |-> outs[i].ret] /\ main_pc' = "write"
    /\ UNCHANGED <<all_env_entries, group_slugs, groups, group_idx, file_idx, wb, data,
                   summary_rows, all_pdf_types, group_results, disk,
                   mode, base_columns, columns, ac_result, ac_calls, sheet, sheet_pc,
                   bboxVars, scanVars, rowVars, sortVars, legendVars, fetchVars>>

\* Lines 242-264, step 3: the sheet of the document, titled by the first 31
\* characters of the file's stem, then the counts of the summary.
WriteDocSheet ==
    /\ main_pc = "write"
    /\ log' = Append(log, Event("sheet", group_idx, file_idx + 1))
    /\ LET ws == write_sheet(rows, columns)
           collected == collect_pdf_data(rows)
       IN /\ wb' = create_sheet(wb, [title |-> SubSeq(json_path, 1, Min(31, Len(json_path))),
                                     cells |-> ws.cells,
                                     width |-> ws.width,
                                     freeze_panes |-> ws.freeze_panes])
          /\ all_pdf_types' = IF mode = "pdf"
                              THEN MergeTypes(all_pdf_types, collected.all_types)
                              ELSE all_pdf_types
          /\ summary_rows' =
                 Append(summary_rows,
                        [fname |-> json_path \o <<".","j","s","o","n">>,
                         total |-> Len(rows),
                         pdf_counts |-> IF mode = "pdf" THEN collected
                                        ELSE [all_types |-> <<>>, counts |-> <<>>]])
    /\ file_idx' = file_idx + 1
    /\ main_pc' = AfterFile(file_idx + 1, groups[group_idx].json_files)
    /\ UNCHANGED <<all_env_entries, group_slugs, groups, group_idx, data, layers,
                   group_results, disk,
                   bboxVars, scanVars, rowVars, sortVars, sheetVars, legendVars, fetchVars>>

\* Lines 266-286: the output path, the sorted tags, the Legend sheet and the
\* save.
Finalize ==
    /\ main_pc = "finalize"
    /\ log' = log \o << Event("legend", group_idx, 0), Event("save", group_idx, 0) >>
    /\ LET group_name == groups[group_idx].name
           out_file == OutFile(group_slugs, group_name, mode = "pdf")
           sorted == IF mode = "pdf" THEN SortByKey(all_pdf_types) ELSE all_pdf_types
           out == write_legend_sheet(wb, base_column_descriptions,
                                     IF mode = "pdf" THEN PDF_COLUMN_DESCRIPTION ELSE None)
       IN /\ all_pdf_types' = sorted
          /\ wb' = out.wb
          /\ base_column_descriptions' = out.base
          /\ disk' = Save(disk, out_file, out.wb)
          /\ group_results' =
                 Append(group_results,
                        [group |-> IF group_name # <<>> THEN group_name ELSE <<"(","r","o","o","t",")">>,
                         out_file |-> out_file,
                         summary_rows |-> summary_rows,
                         all_pdf_types |-> sorted])
    /\ main_pc' = "loop"
    /\ UNCHANGED <<all_env_entries, group_slugs, groups, group_idx, file_idx, data, layers,
                   summary_rows, legend_wb, legend_extra, legend_result,
                   bboxVars, scanVars, rowVars, sortVars, sheetVars, fetchVars>>

\* Line 212: no group is left; what follows (lines 288-323) only prints.
Finish ==
    /\ main_pc = "loop"
    /\ group_idx = Len(groups)
    /\ main_pc' = "done"
    /\ UNCHANGED <<all_env_entries, group_slugs, groups, group_idx, file_idx, wb, data,
                   layers, summary_rows, all_pdf_types, group_results, disk, log,
                   bboxVars, scanVars, rowVars, sortVars, sheetVars, legendVars, fetchVars>>

NextMain ==
    \/ SelectColumns
    \/ GroupSlugs
    \/ StartGroup
    \/ Parse
    \/ Extract
    \/ WriteDocSheet
    \/ Finalize
    \/ Finish

SpecMain == InitMain /\ [][NextMain]_vars

\* The steps of one group in the order the claim gives: each document in turn
\* parsed, scanned and extracted, and written to its sheet; then the Legend
\* and the save.
C12_GroupPlan(g) ==
    LET n == Len(groups[g].json_files)
    IN [k \in 1..(3 * n) |->
          Event(<<"parse", "extract", "sheet">>[((k - 1) % 3) + 1], g, ((k - 1) \div 3) + 1)]
       \o << Event("legend", g, 0), Event("save", g, 0) >>

RECURSIVE C12_Plan(_)
C12_Plan(g) == IF g = 0 THEN <<>> ELSE C12_Plan(g - 1) \o C12_GroupPlan(g)

\* The report of the group that was finalized last, as it is on disk.
C12_Report == Lookup([i \in 1..Len(disk) |-> [key |-> disk[i].path, value |-> disk[i].sheets]],
                     group_results[Len(group_results)].out_file, <<>>)

\* The rows of all the layers of a document.
C12_Rows(stem) ==
    LET doc == FileContent(stem).data
        found == find_hazard_layers(doc, <<>>)
    IN [i \in 1..Len(found) |-> extract_row(At(doc, found[i])).ret]

C12_Title(stem) == SubSeq(stem, 1, Min(31, Len(stem)))

\* C12: the steps of a run are taken in the order of the plan (a document is
\* parsed, extracted and written before the next one is parsed, and a group's
\* Legend and save come after the steps of all its documents), and the
\* report a group has just saved holds one sheet per document of the group,
\* in document order, each with the rows of all the layers of its document,
\* and then the Legend sheet, the only sheet of that title, as its last sheet.
C12_DocumentsThenLegend ==
    /\ Len(log) <= Len(C12_Plan(Len(groups)))
    /\ log = SubSeq(C12_Plan(Len(groups)), 1, Len(log))
    /\ (main_pc \in {"loop", "done"} /\ group_idx >= 1) =>
         LET json_files == groups[group_idx].json_files
             n == Len(json_files)
         IN /\ Len(group_results) = group_idx
            /\ Len(C12_Report) = n + 1
            /\ \A k \in 1..n :
                   /\ C12_Report[k].title = C12_Title(json_files[k])
                   /\ C12_Report[k].title # <<"L","e","g","e","n","d">>
                   /\ C12_Report[k].cells = write_sheet(C12_Rows(json_files[k]), columns).cells
            /\ C12_Report[n + 1].title = <<"L","e","g","e","n","d">>

\* A run of two groups has ended, the second group with two documents, whose
\* report holds their two sheets and the Legend.
C12_Witness ==
    /\ main_pc = "done"
    /\ Len(groups) = 2
    /\ Len(groups[2].json_files) = 2
    /\ log = C12_Plan(2)
    /\ Len(C12_Report) = 3
    /\ C12_Report[1].title = <<"e","m","p","t","y">>
    /\ C12_Report[2].title = <<"f","i","r","e","s">>
    /\ Len(C12_Report[2].cells) = 3
    /\ C12_Report[3].title = <<"L","e","g","e","n","d">>

\* C13: two groups of one run are never written to the same output file.
C13_DistinctOutputFiles ==
    /\ \A i, j \in 1..Len(group_results) :
           i # j => group_results[i].out_file # group_results[j].out_file
    /\ Len(disk) = Len(group_results)

\* The labels of a schema, and the names of a description table.
C18_Labels(cols) == [c \in 1..Len(cols) |-> cols[c].label]
C18_Names(col_descs) == [i \in 1..Len(col_descs) |-> col_descs[i].name]

\* The schema main uses in a mode (line 115).
C18_Schema == IF mode = "pdf" THEN active_columns(BASE_COLUMNS).ret ELSE BASE_COLUMNS

\* C18: in every saved report the names of the Legend's description table
\* are the display labels of the schema of the mode, entry for entry, and
\* they are the header row of every data sheet of the report.
C18_LegendMatchesSchema ==
    \A f \in 1..Len(disk) :
        LET sheets == disk[f].sheets
            legend == sheets[Len(sheets)]
        IN /\ columns = C18_Schema
           /\ C18_Names(legend.col_descs) = C18_Labels(C18_Schema)
           /\ \A k \in 1..(Len(sheets) - 1) :
                  [c \in 1..Len(sheets[k].cells[1]) |-> sheets[k].cells[1][c].value.s]
                      = C18_Names(legend.col_descs)

\* A report of PDF mode is saved: the PDF V2 column is the 11th column of its
\* data sheet and the 11th entry of its Legend.
C18_Witness ==
    /\ mode = "pdf"
    /\ Len(disk) >= 1
    /\ Len(disk[1].sheets) >= 2
    /\ disk[1].sheets[1].cells[1][11].value = JStr(<<"P","D","F"," ","V","2">>)
    /\ disk[1].sheets[Len(disk[1].sheets)].col_descs[11] = PDF_COLUMN_DESCRIPTION
    /\ Len(disk[1].sheets[Len(disk[1].sheets)].col_descs) = 13

(***************************************************************************)
(* fetcher.py: fetch_capabilities (login, GetCapabilities, save)           *)
(***************************************************************************)

\* Line 125, in priority order.
_TOKEN_CANDIDATES ==
    << <<"t","o","k","e","n">>, <<"a","c","c","e","s","s","_","t","o","k","e","n">>, <<"a","c","c","e","s","s","T","o","k","e","n">>, <<"j","w","t">>, <<"i","d","_","t","o","k","e","n">>, <<"i","d","T","o","k","e","n">> >>

\* The fields probed from the last candidate to the first.
RECURSIVE _extract_token_last(_, _)
_extract_token_last(body, fields) ==
    IF ~IsDict(body) THEN Raise("AttributeError", JNull)
    ELSE IF fields = <<>> THEN Return(JNull)
    ELSE LET value == Get(body, fields[Len(fields)], JNull)
         IN IF IsStr(value) /\ value.s # <<>> THEN Return(value)
            ELSE _extract_token_last(body, SubSeq(fields, 1, Len(fields) - 1))

\* Lines 128-134, over the candidates still to probe: the first value that
\* is a non-empty string, else None; login_body.get raises AttributeError
\* when the body is not a dict.
RECURSIVE _extract_token(_, _)
_extract_token(body, fields) ==
    IF ~IsDict(body) THEN Raise("AttributeError", JNull)
    ELSE IF fields = <<>> THEN Return(JNull)
    ELSE LET value == Get(body, Head(fields), JNull)
         IN IF IsStr(value) /\ value.s # <<>> THEN Return(value)
            ELSE _extract_token(body, Tail(fields))

\* urllib.request.Request(url) raises ValueError ("unknown url type") unless
\* the URL starts with a type: characters other than "/" and ":", then ":".
HasUrlType(url) ==
    \E i \in 2..Len(url) :
        url[i] = ":" /\ \A j \in 1..(i - 1) : url[j] \notin {"/", ":"}

\* env_dict.get(key, "").strip(), lines 159-162.
EnvGet(env, key) == Strip(Lookup(env, key, <<>>))

\* Lines 216-218: input_dir / group / (env_name + ".json").
OutPath(input_dir, group, env_name) ==
    input_dir \o <<"/">> \o group \o <<"/">> \o env_name \o <<".","j","s","o","n">>

\* The arguments other than env_dict.
FetchGroup == <<"a","c","m","e">>
FetchEnvName == <<"d","e","v">>
INPUT_DIR == <<"i","n","p","u","t">>

\* What the function returns.
Failure(message) == Return([saved |-> NoPath, err |-> Some(message)])
Success(path) == Return([saved |-> Some(path), err |-> NoError])
Raised(exc) == Raise(exc, [saved |-> NoPath, err |-> NoError])

(***************************************************************************)
(* The calls of fetch_capabilities and what the network and the disk do    *)
(***************************************************************************)

EnvPairs(keys, values) == [i \in 1..Len(keys) |-> [key |-> keys[i], value |-> values[i]]]

\* env_dict: LOGIN_URL missing, blank, well-formed or without a type;
\* GET_CAPABILITIES_URL missing, well-formed or without a type.
LoginUrlChoices ==
    { <<>>,
      EnvPairs(<<<<"L","O","G","I","N","_","U","R","L">>>>, <<<<" "," ">>>>),
      EnvPairs(<<<<"L","O","G","I","N","_","U","R","L">>>>, <<<<" ","h","t","t","p","s",":","/","/","d","e","v",".","q","u","a","r","t","i","c","l","e",".","r","o","/","g","r","a","p","h","/","a","p","i","/","v","1","/","l","o","g","i","n">>>>),
      EnvPairs(<<<<"L","O","G","I","N","_","U","R","L">>>>, <<<<"d","e","v",".","q","u","a","r","t","i","c","l","e",".","r","o","/","l","o","g","i","n">>>>) }

CapsUrlChoices ==
    { <<>>,
      EnvPairs(<<<<"G","E","T","_","C","A","P","A","B","I","L","I","T","I","E","S","_","U","R","L">>>>, <<<<"h","t","t","p","s",":","/","/","d","e","v",".","q","u","a","r","t","i","c","l","e",".","r","o","/","w","m","s","?","r","e","q","u","e","s","t","=","G","e","t","C","a","p","a","b","i","l","i","t","i","e","s">>>>),
      EnvPairs(<<<<"G","E","T","_","C","A","P","A","B","I","L","I","T","I","E","S","_","U","R","L">>>>, <<<<"d","e","v",".","q","u","a","r","t","i","c","l","e",".","r","o","/","w","m","s">>>>) }

Credentials == EnvPairs(<<<<"U","S","E","R","N","A","M","E">>, <<"P","A","S","S","W","O","R","D">>>>, <<<<"h","a","r","v","e","s","t","e","r">>, <<"s","e","c","r","e","t">>>>)

EnvDicts == { l \o c \o Credentials : l \in LoginUrlChoices, c \in CapsUrlChoices }

\* What urlopen and json.loads do with a request: an HTTP error status, no
\* connection, a body that is not JSON, another exception (a timeout, a body
\* that is not UTF-8), or a JSON body.
Response(kind, body) == [kind |-> kind, body |-> body]

ErrorResponses ==
    { Response(k, JNull) : k \in {"HTTPError", "URLError", "JSONDecodeError", "Exception"} }

\* Login bodies: mappings with and without a usable token, and JSON values
\* that are no mapping.
LoginBodies ==
    { JDict(<<<<"t","o","k","e","n">>>>, <<JStr(<<"T","1">>)>>),
      JDict(<<<<"i","d","T","o","k","e","n">>, <<"a","c","c","e","s","s","_","t","o","k","e","n">>>>, <<JStr(<<"T","6">>), JStr(<<"T","2">>)>>),
      JDict(<<<<"t","o","k","e","n">>, <<"j","w","t">>>>, <<JStr(<<>>), JStr(<<"T","4">>)>>),
      JDict(<<<<"t","o","k","e","n">>, <<"i","d","_","t","o","k","e","n">>>>, <<JInt(5), JStr(<<"T","5">>)>>),
      JDict(<<<<"t","o","k","e","n">>>>, <<JStr(<<>>)>>),
      JDict(<<<<"u","s","e","r">>>>, <<JStr(<<"h","a","r","v","e","s","t","e","r">>)>>),
      JDict(<<>>, <<>>),
      JList(<<JStr(<<"T","1">>)>>),
      JStr(<<"T","1">>),
      JNull }

CapsBodies == { JDict(<<<<"l","a","y","e","r","s">>>>, <<JList(<<>>)>>), JNull }

LoginResponses == ErrorResponses \cup { Response("ok", b) : b \in LoginBodies }
CapsResponses == ErrorResponses \cup { Response("ok", b) : b \in CapsBodies }

\* What the disk does at lines 217-221: mkdir raises an OSError (a file is
\* in the way, no permission), open raises one (nothing is written), the
\* write raises one after open has truncated the file, or all is written.
DiskOutcomes == { "mkdir OSError", "open OSError", "write OSError", "ok" }

InitFetch ==
    /\ fetch_env \in EnvDicts
    /\ login_body = JNull
    /\ token = <<>>
    /\ caps_data = JNull
    /\ requests = <<>>
    /\ saved_file \in {"absent", "previous"}
    /\ fetch_pc = "start"
    /\ fetch_result = Pending([saved |-> NoPath, err |-> NoError])
    /\ BboxIdle
    /\ ScanIdle
    /\ RowIdle
    /\ SortIdle
    /\ SheetIdle
    /\ LegendIdle
    /\ MainIdle

\* A request handed to urlopen: its URL, the token of its Authorization
\* header ("" when it has none), and how it was answered.
Request(kind, url, bearer, answer) ==
    [kind |-> kind, url |-> url, bearer |-> bearer, answer |-> answer]

\* Lines 159-176: the URLs are read and checked, the login request is built.
FetchStart ==
    /\ fetch_pc = "start"
    /\ LET login_url == EnvGet(fetch_env, <<"L","O","G","I","N","_","U","R","L">>)
           caps_url == EnvGet(fetch_env, <<"G","E","T","_","C","A","P","A","B","I","L","I","T","I","E","S","_","U","R","L">>)
       IN IF login_url = <<>>
          THEN /\ fetch_result' = Failure("LOGIN_URL is missing from .env file")
               /\ fetch_pc' = "done"
          ELSE IF caps_url = <<>>
          THEN /\ fetch_result' = Failure("GET_CAPABILITIES_URL is missing from .env file")
               /\ fetch_pc' = "done"
          ELSE IF ~HasUrlType(login_url)
          THEN /\ fetch_result' = Raised("ValueError")
               /\ fetch_pc' = "done"
          ELSE /\ fetch_result' = fetch_result
               /\ fetch_pc' = "login"
    /\ UNCHANGED <<fetch_env, login_body, token, caps_data, requests, saved_file,
                   bboxVars, scanVars, rowVars, sortVars, sheetVars, legendVars, mainVars>>

\* Lines 177-187: the login request is sent.
Login ==
    /\ fetch_pc = "login"
    /\ \E resp \in LoginResponses :
         /\ requests' = Append(requests, Request("login", EnvGet(fetch_env, <<"L","O","G","I","N","_","U","R","L">>),
                                                 <<>>, resp.kind))
         /\ CASE resp.kind = "ok" ->
                    /\ login_body' = resp.body
                    /\ fetch_result' = fetch_result
                    /\ fetch_pc' = "token"
             [] resp.kind = "HTTPError" ->
                    /\ login_body' = login_body
                    /\ fetch_result' = Failure("Login failed HTTP")
                    /\ fetch_pc' = "done"
             [] resp.kind = "URLError" ->
                    /\ login_body' = login_body
                    /\ fetch_result' = Failure("Login connection error")
                    /\ fetch_pc' = "done"
             [] resp.kind = "JSONDecodeError" ->
                    /\ login_body' = login_body
                    /\ fetch_result' = Failure("Login response is not valid JSON")
                    /\ fetch_pc' = "done"
             [] resp.kind = "Exception" ->
                    /\ login_body' = login_body
                    /\ fetch_result' = Failure("Login error")
                    /\ fetch_pc' = "done"
    /\ UNCHANGED <<fetch_env, token, caps_data, saved_file,
                   bboxVars, scanVars, rowVars, sortVars, sheetVars, legendVars, mainVars>>

\* Lines 189-202: the token is taken from the login body and the
\* GetCapabilities request is built.
ExtractToken ==
    /\ fetch_pc = "token"
    /\ LET out == _extract_token(login_body, _TOKEN_CANDIDATES)
       IN IF out.status = "raised"
          THEN /\ fetch_result' = Raised(out.exc)
               /\ token' = token
               /\ fetch_pc' = "done"
          ELSE IF ~Truthy(out.ret)
          THEN /\ fetch_result' = Failure("No JWT token found in login response")
               /\ token' = token
               /\ fetch_pc' = "done"
          ELSE IF ~HasUrlType(EnvGet(fetch_env, <<"G","E","T","_","C","A","P","A","B","I","L","I","T","I","E","S","_","U","R","L">>))
          THEN /\ fetch_result' = Raised("ValueError")
               /\ token' = out.ret.s
               /\ fetch_pc' = "done"
          ELSE /\ fetch_result' = fetch_result
               /\ token' = out.ret.s
               /\ fetch_pc' = "caps"
    /\ UNCHANGED <<fetch_env, login_body, caps_data, requests, saved_file,
                   bboxVars, scanVars, rowVars, sortVars, sheetVars, legendVars, mainVars>>

\* Lines 203-213: the GetCapabilities request is sent with the token.
GetCapabilities ==
    /\ fetch_pc = "caps"
    /\ \E resp \in CapsResponses :
         /\ requests' = Append(requests,
                               Request("caps", EnvGet(fetch_env, <<"G","E","T","_","C","A","P","A","B","I","L","I","T","I","E","S","_","U","R","L">>),
                                       token, resp.kind))
         /\ CASE resp.kind = "ok" ->
                    /\ caps_data' = resp.body
                    /\ fetch_result' = fetch_result
                    /\ fetch_pc' = "save"
             [] resp.kind = "HTTPError" ->
                    /\ caps_data' = caps_data
                    /\ fetch_result' = Failure("GetCapabilities failed HTTP")
                    /\ fetch_pc' = "done"
             [] resp.kind = "URLError" ->
                    /\ caps_data' = caps_data
                    /\ fetch_result' = Failure("GetCapabilities connection error")
                    /\ fetch_pc' = "done"
             [] resp.kind = "JSONDecodeError" ->
                    /\ caps_data' = caps_data
                    /\ fetch_result' = Failure("GetCapabilities response is not valid JSON")
                    /\ fetch_pc' = "done"
             [] resp.kind = "Exception" ->
                    /\ caps_data' = caps_data
                    /\ fetch_result' = Failure("GetCapabilities error")
                    /\ fetch_pc' = "done"
    /\ UNCHANGED <<fetch_env, login_body, token, saved_file,
                   bboxVars, scanVars, rowVars, sortVars, sheetVars, legendVars, mainVars>>

\* Lines 215-225: the directory is made (outside the try), the file is
\* opened for writing and the document is dumped.
SaveCapabilities ==
    /\ fetch_pc = "save"
    /\ \E outcome \in DiskOutcomes :
           CASE outcome = "mkdir OSError" ->
                    /\ fetch_result' = Raised("OSError")
                    /\ saved_file' = saved_file
             [] outcome = "open OSError" ->
                    /\ fetch_result' = Failure("Could not write")
                    /\ saved_file' = saved_file
             [] outcome = "write OSError" ->
                    /\ fetch_result' = Failure("Could not write")
                    /\ saved_file' = "partial"
             [] outcome = "ok" ->
                    /\ fetch_result' = Success(OutPath(INPUT_DIR, FetchGroup, FetchEnvName))
                    /\ saved_file' = "capabilities"
    /\ fetch_pc' = "done"
    /\ UNCHANGED <<fetch_env, login_body, token, caps_data, requests,
                   bboxVars, scanVars, rowVars, sortVars, sheetVars, legendVars, mainVars>>

NextFetch == FetchStart \/ Login \/ ExtractToken \/ GetCapabilities \/ SaveCapabilities

SpecFetch == InitFetch /\ [][NextFetch]_vars

\* C14: fetch_capabilities never raises, and what it returns is a path and no
\* error, or no path and an error.
C14_ReturnsPathOrError ==
    /\ fetch_result.status # "raised"
    /\ fetch_pc = "done" =>
         /\ fetch_result.status = "returned"
         /\ fetch_result.ret.saved.some # fetch_result.ret.err.some

\* The value of the i-th candidate field is a non-empty string.
C17_Usable(body, i) ==
    LET value == Get(body, _TOKEN_CANDIDATES[i], JNull)
    IN IsStr(value) /\ value.s # <<>>

\* The login body is a mapping and t is the value of its first usable
\* candidate field, in priority order.
C17_IsFirstToken(body, t) ==
    /\ IsDict(body)
    /\ \E i \in 1..Len(_TOKEN_CANDIDATES) :
           /\ C17_Usable(body, i)
           /\ \A j \in 1..(i - 1) : ~C17_Usable(body, j)
           /\ t = Get(body, _TOKEN_CANDIDATES[i], JNull).s

C17_Written == saved_file \in {"partial", "capabilities"}

\* The order of the steps: no request without both URLs; the login request
\* first; the GetCapabilities request only after a login that was answered
\* with a body whose first usable candidate field is the token it carries;
\* the file touched only after both requests were answered well.
C17_Order ==
    /\ (EnvGet(fetch_env, <<"L","O","G","I","N","_","U","R","L">>) = <<>> \/ EnvGet(fetch_env, <<"G","E","T","_","C","A","P","A","B","I","L","I","T","I","E","S","_","U","R","L">>) = <<>>)
           => requests = <<>>
    /\ Len(requests) <= 2
    /\ Len(requests) >= 1 =>
           /\ requests[1].kind = "login"
           /\ requests[1].url = EnvGet(fetch_env, <<"L","O","G","I","N","_","U","R","L">>)
    /\ Len(requests) = 2 =>
           /\ requests[1].answer = "ok"
           /\ requests[2].kind = "caps"
           /\ requests[2].url = EnvGet(fetch_env, <<"G","E","T","_","C","A","P","A","B","I","L","I","T","I","E","S","_","U","R","L">>)
           /\ C17_IsFirstToken(login_body, requests[2].bearer)
    /\ C17_Written =>
           /\ Len(requests) = 2
           /\ requests[2].answer = "ok"
           /\ fetch_pc = "done"
    /\ (fetch_pc = "done" /\ fetch_result.status = "returned" /\ fetch_result.ret.saved.some) =>
           /\ saved_file = "capabilities"
           /\ fetch_result.ret.saved.value = OutPath(INPUT_DIR, FetchGroup, FetchEnvName)

\* C17 as stated: the order of the steps, and a run that fails (it returns
\* an error, or raises) has written or overwritten no file.
C17_FailedRunWritesNoFile ==
    /\ C17_Order
    /\ (fetch_pc = "done" /\ ~(fetch_result.status = "returned" /\ fetch_result.ret.saved.some))
           => ~C17_Written

\* C17 as amended: the order of the steps; a run that fails before its save
\* step has written or overwritten no file, and a run that fails leaves the
\* file as it was or, when the write itself failed, truncated or partly
\* written, never with the new document.
C17_LoginThenCapabilitiesThenSave ==
    /\ C17_Order
    /\ (fetch_pc = "done" /\ ~(Len(requests) = 2 /\ requests[2].answer = "ok")) => ~C17_Written
    /\ (fetch_pc = "done" /\ ~(fetch_result.status = "returned" /\ fetch_result.ret.saved.some))
           => saved_file # "capabilities"

\* A run ended well: the login body named two candidate fields, the request
\* carried the one that comes first in priority order, and the document
\* replaced the one of an earlier run.
C17_Witness ==
    /\ fetch_pc = "done"
    /\ fetch_result = Success(<<"i","n","p","u","t","/","a","c","m","e","/","d","e","v",".","j","s","o","n">>)
    /\ Len(requests) = 2
    /\ login_body = JDict(<<<<"i","d","T","o","k","e","n">>, <<"a","c","c","e","s","s","_","t","o","k","e","n">>>>, <<JStr(<<"T","6">>), JStr(<<"T","2">>)>>)
    /\ requests[2].bearer = <<"T","2">>
    /\ saved_file = "capabilities"

(***************************************************************************)
(* Termination of the scan                                                 *)
(***************************************************************************)

C15_NoRepeat(q) == \A i, j \in 1..Len(q) : q[i] = q[j] => i = j

\* No node is put on the stack twice or taken off it twice, only nodes of
\* the document that were put on it are taken off, and the stack holds
\* exactly the nodes put on it and not yet taken off.
C15_AtMostOnce ==
    /\ C15_NoRepeat(pushed)
    /\ C15_NoRepeat(popped)
    /\ SeqRange(pushed) \subseteq PathsBelow(root, <<>>) \cup { <<>> }
    /\ SeqRange(popped) \subseteq SeqRange(pushed)
    /\ SeqRange(stack) = SeqRange(pushed) \ SeqRange(popped)
    /\ C15_NoRepeat(stack)

\* C15: on every document the loop of find_hazard_layers comes to its end,
\* with the stack empty and every node that was put on the stack taken off
\* it, and up to there no node is put on or taken off the stack twice.
C15_Terminates ==
    /\ []C15_AtMostOnce
    /\ <>(scan_pc = "done" /\ stack = <<>> /\ SeqRange(popped) = SeqRange(pushed))

\* The scan of a document three containers deep has ended, having found a
\* layer and taken five or more nodes off the stack.
C15_Witness ==
    /\ scan_pc = "done"
    /\ stack = <<>>
    /\ results # <<>>
    /\ Len(popped) >= 5
    /\ \E i \in 1..Len(popped) : Len(popped[i]) >= 2

(***************************************************************************)
(* The secondary tag of a row                                              *)
(***************************************************************************)

\* The elements of a keyword list that are strings whose lower-cased form
\* starts with "pdf:hazardlookup:".
C16_Qualifying(ks) ==
    { i \in 1..Len(ks) : ks[i].t = "str" /\ StartsWith(Lower(ks[i].s), <<"p","d","f",":","h","a","z","a","r","d","l","o","o","k","u","p",":">>) }

C16_Tag == Get(row_result.ret, <<"p","d","f","_","v","2">>, JNull)

\* The tag of a returned row is the sentinel exactly when no element of the
\* layer's keyword list qualifies.
C16_SentinelIffUntagged ==
    (row_result.status = "returned" /\ IsList(C5_KeywordList))
    => /\ C16_Tag.t = "str"
       /\ C16_Tag.s = <<"n","o","t"," ","a","t","t","a","c","h","e","d"," ","t","o"," ","P","D","F"," ","V","2">>
            <=> C16_Qualifying(C5_KeywordList.items) = {}

\* C16: the secondary tag of every extracted row is a populated string, and
\* it is the sentinel "not attached to PDF V2" if and only if no element of
\* keyword_list is a string starting (case-insensitively) with
\* "pdf:hazardlookup:": a qualifying keyword gives neither the sentinel nor
\* an empty tag.
C16_TagPopulated ==
    /\ C16_SentinelIffUntagged
    /\ (row_result.status = "returned" /\ IsList(C5_KeywordList))
        => C16_Tag.s # <<>>

(***************************************************************************)
(* The bbox classifier called on its own                                   *)
(***************************************************************************)

\* Integer bounds: the corners of the world, a small box, and the values that
\* put a span on, just under and just over a threshold.
LonLatValues == {-180, -90, -30, -10, 10, 29, 30, 90, 159, 160, 180}

\* Bounds that are no number in the document.
NonNumericBounds ==
    { JNull, JStr(<<>>), JStr(<<"a","b","c">>), JStr(<<"1","8","0">>), JStr(<<"-","1","8","0">>),
      JBool(TRUE), JBool(FALSE), JList(<<>>), JDict(<<>>, <<>>) }

BoundValues == {JInt(n) : n \in LonLatValues} \cup NonNumericBounds \cup {JBigInt(1)}

InitBbox ==
    /\ bbox \in [west : BoundValues, east : BoundValues,
                 north : BoundValues, south : BoundValues]
    /\ bbox_result = Pending(FALSE)
    /\ ScanIdle
    /\ RowIdle
    /\ SortIdle
    /\ SheetIdle
    /\ RestIdle

IsGlobalBboxCall ==
    /\ bbox_result.status = "pending"
    /\ bbox_result' = is_global_bbox(bbox.west, bbox.east, bbox.north, bbox.south)
    /\ UNCHANGED <<bbox, scanVars, rowVars, sortVars, sheetVars, restVars>>

NextBbox == IsGlobalBboxCall

SpecBbox == InitBbox /\ [][NextBbox]_vars

\* The kinds of bound a document can hold that are no number: None, a string
\* (empty, no number, or looking like one), a boolean, a list, a mapping.
C2_IsNonNumeric(v) == v.t \in {"null", "str", "bool", "list", "dict"}

C3_AllIntBounds ==
    bbox.west.t = "int" /\ bbox.east.t = "int" /\ bbox.north.t = "int" /\ bbox.south.t = "int"

\* C2: whenever one of the four bounds is missing or non-numeric (None, any
\* string, a boolean, a list, a mapping), whatever the other three are,
\* is_global_bbox returns False and raises nothing.
C2_NonNumericIsFalse ==
    (bbox_result.status # "pending"
     /\ \E b \in {bbox.west, bbox.east, bbox.north, bbox.south} : C2_IsNonNumeric(b))
    => (bbox_result.status = "returned" /\ bbox_result.ret = FALSE)

\* C3: for integer bounds is_global_bbox returns, and returns True exactly when
\* east - west >= 340 and north - south >= 120, both inclusive and the spans
\* taken as they are: an inverted box has a negative span and is not global;
\* (-180, 180, 90, -90) is global and (-10, 10, 10, -10) is not.
C3_GlobalIffSpans ==
    (bbox_result.status # "pending" /\ C3_AllIntBounds)
    => /\ bbox_result.status = "returned"
       /\ bbox_result.ret = (bbox.east.n - bbox.west.n >= 340
                             /\ bbox.north.n - bbox.south.n >= 120)
       /\ (bbox.west.n > bbox.east.n \/ bbox.south.n > bbox.north.n)
              => bbox_result.ret = FALSE
       /\ (bbox.west.n = -180 /\ bbox.east.n = 180 /\ bbox.north.n = 90
           /\ bbox.south.n = -90) => bbox_result.ret = TRUE
       /\ (bbox.west.n = -10 /\ bbox.east.n = 10 /\ bbox.north.n = 10
           /\ bbox.south.n = -10) => bbox_result.ret = FALSE

\* C3's case: a box whose spans sit exactly on both thresholds was classified.
C3_Witness ==
    /\ bbox_result.status = "returned"
    /\ C3_AllIntBounds
    /\ bbox.east.n - bbox.west.n = 340
    /\ bbox.north.n - bbox.south.n = 120
    /\ bbox_result.ret = TRUE

=============================================================================
